---- MODULE Spec2Model ----
(***************************************************************************)
(* A model of the filtering and grouping engine of sarif-tools:            *)
(*   - sarif/filter/general_filter.py  (GeneralFilter, PropertyFilter)     *)
(*   - sarif/filter/filter_stats.py    (FilterStats)                       *)
(*   - sarif/issues_report.py          (IssuesReport)                      *)
(*   - sarif/sarif_file_utils.py       (location, key and sort helpers)    *)
(*   - sarif/operations/diff_op.py     (_calc_diff, print_diff)            *)
(*                                                                         *)
(* Conventions.  A Python str is a sequence of one-character strings.  An  *)
(* optional value (a dict key that may be absent, or a value that may be   *)
(* None) is a sequence of length 0 (absent / None) or 1 (present).         *)
(***************************************************************************)
EXTENDS Integers, Sequences, FiniteSets, TLC

VARIABLES
    \* ---- GeneralFilter (general_filter.py) and the results it filters ----
    filter_stats,            \* GeneralFilter.filter_stats: optional FilterStats
    include_filters,         \* GeneralFilter.include_filters (compiled)
    apply_inclusion_filter,  \* GeneralFilter.apply_inclusion_filter
    exclude_filters,         \* GeneralFilter.exclude_filters (compiled)
    apply_exclusion_filter,  \* GeneralFilter.apply_exclusion_filter
    configuration,           \* GeneralFilter.configuration
    results,                 \* the list of result dicts handed to filter_results
    filtered_results,        \* last return value of filter_results: indexes into results
    last_call,               \* the GeneralFilter method called last
    \* ---- IssuesReport (issues_report.py) ----
    sev_to_records,          \* IssuesReport._sev_to_records
    sev_to_sorted_keys,      \* IssuesReport._sev_to_sorted_keys (optional)
    records_have_been_sorted,\* IssuesReport._records_have_been_sorted
    query,                   \* the last query made on the report and its answer
    regroup,                 \* outcome of the last regrouping / reordering / diff experiment
    \* ---- calls of the functions of sarif_file_utils.py ----
    combine_call,            \* a call of combine_code_and_description: arguments, return value
    severity_call,           \* a call of read_result_severity: arguments, return value
    stats_call,              \* a call on FilterStats objects: arguments, return value
    check_call,              \* a call of print_diff or _check: arguments, return value
    load_call,               \* a call of _init_filtering: the filter file, the error raised
    file_set,                \* a SarifFileSet: its subdirs and its files
    set_call,                \* a query on the file set: operation, argument, return value
    set_iteration,           \* the generator returned by iter(file_set), where it is suspended
    \* ---- SarifRun (sarif_file.py); its _filter is the GeneralFilter above, ----
    \* ---- its run_data["results"] the results                             ----
    path_prefixes_upper,     \* SarifRun._path_prefixes_upper (optional list)
    cached_records,          \* SarifRun._cached_records (optional list)
    default_line_number,     \* SarifRun._default_line_number (optional)
    conversion,              \* SarifRun.run_data.get("conversion") (optional)
    run_call                 \* the SarifRun method called last and what it returned

vars == <<filter_stats, include_filters, apply_inclusion_filter, exclude_filters,
          apply_exclusion_filter, configuration, results, filtered_results,
          last_call, sev_to_records, sev_to_sorted_keys,
          records_have_been_sorted, query, regroup, combine_call,
          severity_call, stats_call, check_call, load_call, file_set, set_call, set_iteration,
          path_prefixes_upper, cached_records,
          default_line_number, conversion, run_call>>

filter_vars == <<filter_stats, include_filters, apply_inclusion_filter, exclude_filters,
                 apply_exclusion_filter, configuration, results, filtered_results,
                 last_call>>

report_vars == <<sev_to_records, sev_to_sorted_keys, records_have_been_sorted,
                 query, regroup>>

call_vars == <<combine_call, severity_call, stats_call, check_call, load_call, file_set,
               set_call, set_iteration>>

run_vars == <<path_prefixes_upper, cached_records, default_line_number, conversion,
              run_call>>

-----------------------------------------------------------------------------
(* Bounds *)

MaxResults == 2      \* longest list of results handed to filter_results
MaxRecords == 3      \* most records added to one IssuesReport
MaxCount == 2        \* largest value of a counter of serialized FilterStats
MaxRuns == 2         \* most runs of a file whose filter statistics are merged
MaxSubdirs == 1      \* most subdirectories added to a file set
MaxSetFiles == 1     \* most files added to a file set
MaxFiles == 2        \* most files of a file set whose filter statistics are merged
MaxDiffRecords == 2  \* most records of each of the two file sets given to print_diff

-----------------------------------------------------------------------------
(* Python str helpers *)

\* The characters used by the model, in code point order.
Alphabet ==
    <<"\n", " ", ",", "-", ".", "/",
      "0", "1", "2", "3", "4", "5", "6", "7", "8", "9", "<", ">",
      "A", "B", "C", "D", "E", "F", "G", "H", "I", "J", "K", "L", "M",
      "N", "O", "P", "Q", "R", "S", "T", "U", "V", "W", "X", "Y", "Z",
      "\\",
      "a", "b", "c", "d", "e", "f", "g", "h", "i", "j", "k", "l", "m",
      "n", "o", "p", "q", "r", "s", "t", "u", "v", "w", "x", "y", "z">>

\* Position of a character in code point order.
Ord(c) == CHOOSE i \in 1..Len(Alphabet) : Alphabet[i] = c

IsUpper(c) == Ord(c) >= Ord("A") /\ Ord(c) <= Ord("Z")

\* str.lower() of one character.
LowerChar(c) == IF IsUpper(c) THEN Alphabet[Ord(c) - Ord("A") + Ord("a")] ELSE c

\* str.upper() of one character.
UpperChar(c) ==
    IF Ord(c) >= Ord("a") /\ Ord(c) <= Ord("z")
    THEN Alphabet[Ord(c) - Ord("a") + Ord("A")] ELSE c

\* s.upper()
Upper(s) == [i \in 1..Len(s) |-> UpperChar(s[i])]

IsSpace(c) == c \in {" ", "\n"}

\* s[a:b] with 0-based Python slice bounds, 0 <= a.
Slice(s, a, b) ==
    LET hi == IF b > Len(s) THEN Len(s) ELSE b
    IN  IF a >= hi THEN <<>> ELSE SubSeq(s, a + 1, hi)

\* s.startswith(p)
StartsWith(s, p) == Len(p) <= Len(s) /\ SubSeq(s, 1, Len(p)) = p

\* s.endswith(p)
EndsWith(s, p) == Len(p) <= Len(s) /\ SubSeq(s, Len(s) - Len(p) + 1, Len(s)) = p

\* sub in s
Contains(s, sub) ==
    \E i \in 0..(Len(s) - Len(sub)) : SubSeq(s, i + 1, i + Len(sub)) = sub

\* s.find(c) for one character: 0-based index of the first occurrence or -1.
IndexOf(s, c) ==
    IF \E i \in 1..Len(s) : s[i] = c
    THEN (CHOOSE i \in 1..Len(s) : s[i] = c /\ \A j \in 1..(i - 1) : s[j] # c) - 1
    ELSE -1

\* s.lstrip()
LStrip(s) ==
    IF \A i \in 1..Len(s) : IsSpace(s[i]) THEN <<>>
    ELSE SubSeq(s, CHOOSE i \in 1..Len(s) :
                       ~IsSpace(s[i]) /\ \A j \in 1..(i - 1) : IsSpace(s[j]),
                Len(s))

\* s.rstrip()
RStrip(s) ==
    IF \A i \in 1..Len(s) : IsSpace(s[i]) THEN <<>>
    ELSE SubSeq(s, 1, CHOOSE i \in 1..Len(s) :
                          ~IsSpace(s[i]) /\ \A j \in (i + 1)..Len(s) : IsSpace(s[j]))

\* s.strip()
Strip(s) == LStrip(RStrip(s))

\* a < b for Python str (lexicographic by code point).
StrLess(a, b) ==
    LET n == IF Len(a) < Len(b) THEN Len(a) ELSE Len(b)
        differ == {i \in 1..n : a[i] # b[i]}
    IN  IF differ = {} THEN Len(a) < Len(b)
        ELSE LET i == CHOOSE i \in differ : \A j \in differ : i <= j
             IN  Ord(a[i]) < Ord(b[i])

\* str(n) for a natural number.
RECURSIVE StrOfNat(_)
StrOfNat(n) ==
    IF n < 10 THEN <<Alphabet[Ord("0") + n]>>
    ELSE StrOfNat(n \div 10) \o <<Alphabet[Ord("0") + (n % 10)]>>

\* s.zfill(width) for a string without a sign.
ZFill(s, width) ==
    IF Len(s) >= width THEN s
    ELSE [i \in 1..width |-> IF i <= width - Len(s) THEN "0" ELSE s[i - (width - Len(s))]]

-----------------------------------------------------------------------------
(* String constants used as data *)

S_error == <<"e", "r", "r", "o", "r">>
S_warning == <<"w", "a", "r", "n", "i", "n", "g">>
S_note == <<"n", "o", "t", "e">>
S_none == <<"n", "o", "n", "e">>
S_test_rule == <<"t", "e", "s", "t", "-", "r", "u", "l", "e">>
S_sarif_tools == <<"s", "a", "r", "i", "f", "-", "t", "o", "o", "l", "s">>
S_regex_TEST == <<"/", "T", "E", "S", "T", "/">>
S_err == <<"e", "r", "r">>
S_1 == <<"1">>
S_f1 == <<"f", "1">>
S_f2 == <<"f", "2">>

None == <<>>
Some(v) == <<v>>

-----------------------------------------------------------------------------
(* sarif_file_utils.py: location of a result *)

\* A JSON number or string, as a line number is: an integer (as SARIF stores
\* it) or a string.
IntLine(n) == [kind |-> "int", int |-> n, str |-> <<>>]
StrLine(s) == [kind |-> "str", int |-> 0, str |-> s]

\* Python truthiness of a value that is None, an int or a str.
Truthy(opt) ==
    /\ opt # None
    /\ IF opt[1].kind = "int" THEN opt[1].int # 0 ELSE opt[1].str # <<>>

\* "if not file_path: file_path = ..." of read_result_location lines 88-94
file_path_or(file_path, next_file_path) ==
    IF file_path = None \/ file_path[1] = <<>> THEN next_file_path ELSE file_path

\* read_result_location lines 95-99: the fullyQualifiedName of the first
\* logical location is taken only when there are logical locations; without
\* them the file path stays what it was, None or the empty string.
file_path_or_logical(file_path, logical_locations) ==
    IF (file_path = None \/ file_path[1] = <<>>) /\ logical_locations # <<>>
    THEN logical_locations[1].fullyQualifiedName
    ELSE file_path

\* read_result_location: (file_path, line_number) of the first location.  The
\* locations of a result are a list, as the SARIF schema has them.
read_result_location(result) ==
    IF result.locations # <<>>
    THEN [file_path |->
              file_path_or_logical(file_path_or(result.locations[1].address_fqn,
                                                result.locations[1].uri),
                                   result.locations[1].logicalLocations),
          line_number |-> result.locations[1].startLine]
    ELSE [file_path |-> None, line_number |-> None]

-----------------------------------------------------------------------------
(* sarif_file_utils.py: severity of a result.  A run is the record of its    *)
(* rule table (tool.driver.rules) and its invocations, both empty lists when *)
(* the run lacks them.                                                       *)

S_fail == <<"f", "a", "i", "l">>

\* dict.get(key): the optional value of a key the dict may lack.
Get(dict, key) == IF key \in DOMAIN dict THEN dict[key] ELSE None

\* "if rule:" for the nested rule object of a result: a non-empty dict.
RuleObjectGiven(rule) == rule # None /\ (rule[1].index # None \/ rule[1].id # None)

\* read_result_rule lines 109-115: the rule index of the result, else of its
\* nested rule object.
effective_rule_index(result) ==
    IF Get(result, "ruleIndex") = None /\ RuleObjectGiven(Get(result, "rule"))
    THEN Get(result, "rule")[1].index
    ELSE Get(result, "ruleIndex")

\* read_result_rule lines 110-118: the rule id of the result, else of its
\* nested rule object.
effective_rule_id(result) ==
    IF Get(result, "ruleId") = None /\ RuleObjectGiven(Get(result, "rule"))
    THEN Get(result, "rule")[1].id
    ELSE Get(result, "ruleId")

\* read_result_rule lines 126-130: the first rule of the table with the id.
find_rule_by_id(rules, ruleId) ==
    LET found == {i \in 1..Len(rules) : rules[i].id = ruleId}
    IN  IF found = {} THEN [rule |-> None, ruleIndex |-> -1]
        ELSE [rule |-> Some(rules[CHOOSE i \in found : \A j \in found : i <= j]),
              ruleIndex |-> (CHOOSE i \in found : \A j \in found : i <= j) - 1]

\* read_result_rule lines 122-130
resolve_rule(rules, ruleIndex, ruleId) ==
    IF ruleIndex # None /\ ruleIndex[1] >= 0 /\ ruleIndex[1] < Len(rules)
    THEN [rule |-> Some(rules[ruleIndex[1] + 1]), ruleIndex |-> ruleIndex[1]]
    ELSE IF ruleId # None /\ ruleId[1] # <<>> THEN find_rule_by_id(rules, ruleId)
    ELSE [rule |-> None, ruleIndex |-> -1]

\* read_result_rule: the rule object (optional) and its index in the table.
read_result_rule(result, run) ==
    resolve_rule(run.rules, effective_rule_index(result), effective_rule_id(result))

\* read_result_invocation lines 142-147
invocation_at(invocations, invocationIndex) ==
    IF invocationIndex # None /\ invocationIndex[1] >= 0
       /\ invocationIndex[1] < Len(invocations)
    THEN Some(invocations[invocationIndex[1] + 1])
    ELSE None

\* read_result_invocation: the invocation the result names, if the run has it.
read_result_invocation(result, run) ==
    invocation_at(run.invocations,
                  IF Get(result, "provenance") = None THEN None
                  ELSE Get(result, "provenance")[1].invocationIndex)

\* read_result_severity lines 174-182: the first override whose descriptor
\* names the rule by id or by index.
first_override(overrides, rule, ruleIndex) ==
    LET matching == {k \in 1..Len(overrides) :
                        \/ overrides[k].descriptor_id = rule.id
                        \/ overrides[k].descriptor_index = Some(ruleIndex)}
    IN  IF matching = {} THEN None
        ELSE Some(overrides[CHOOSE k \in matching : \A j \in matching : k <= j])

\* read_result_severity lines 184-187: the level of the override, if it has one.
override_level(override) ==
    IF override # None /\ override[1].level # None /\ override[1].level[1] # <<>>
    THEN override[1].level
    ELSE None

\* read_result_severity lines 169-187: the level the invocation overrides the
\* rule with.  An invocation without any key is an empty dict and is skipped.
invocation_override_level(invocation, rule, ruleIndex) ==
    IF invocation # None /\ invocation[1].ruleConfigurationOverrides # None
    THEN override_level(first_override(invocation[1].ruleConfigurationOverrides[1],
                                       rule, ruleIndex))
    ELSE None

\* read_result_severity lines 189-197: the default level of the rule, else "warning".
default_level_ignored(rule) == S_warning

default_level(rule) ==
    IF rule.defaultConfiguration_level # None /\ rule.defaultConfiguration_level[1] # <<>>
    THEN rule.defaultConfiguration_level[1]
    ELSE S_warning

\* read_result_severity lines 167-197, for the resolved rule and the override level.
rule_level(rule, overrideLevel) ==
    IF overrideLevel # None THEN overrideLevel[1] ELSE default_level(rule)

\* read_result_severity lines 166-197.  "if rule:" skips a rule object
\* without any key.
severity_by_rule(found, invocation) ==
    IF found.rule # None
       /\ (found.rule[1].id # None \/ found.rule[1].defaultConfiguration_level # None)
    THEN rule_level(found.rule[1],
                    invocation_override_level(invocation, found.rule[1], found.ruleIndex))
    ELSE S_warning

\* read_result_severity
read_result_severity(result, run) ==
    IF Get(result, "level") # None /\ Get(result, "level")[1] # <<>>
    THEN Get(result, "level")[1]
    ELSE IF Get(result, "kind") # None /\ Get(result, "kind")[1] # <<>>
            /\ Get(result, "kind")[1] # S_fail
    THEN S_none
    ELSE severity_by_rule(read_result_rule(result, run),
                          read_result_invocation(result, run))

-----------------------------------------------------------------------------
(* general_filter.py: compiling filters *)

\* The property paths of the filter terms, as strings.
S_author == <<"a", "u", "t", "h", "o", "r">>
S_author_mail == <<"a", "u", "t", "h", "o", "r", "-", "m", "a", "i", "l">>
S_committer == <<"c", "o", "m", "m", "i", "t", "t", "e", "r">>
S_committer_mail == <<"c", "o", "m", "m", "i", "t", "t", "e", "r", "-", "m", "a", "i", "l">>
S_location == <<"l", "o", "c", "a", "t", "i", "o", "n">>
S_rule == <<"r", "u", "l", "e">>
S_suppression == <<"s", "u", "p", "p", "r", "e", "s", "s", "i", "o", "n">>
S_level == <<"l", "e", "v", "e", "l">>
S_ruleId == <<"r", "u", "l", "e", "I", "d">>
S_uri == <<"u", "r", "i">>
S_properties_blame_author == <<"p", "r", "o", "p", "e", "r", "t", "i", "e", "s", ".", "b", "l", "a", "m", "e", ".", "a", "u", "t", "h", "o", "r">>
S_properties_blame_author_mail == <<"p", "r", "o", "p", "e", "r", "t", "i", "e", "s", ".", "b", "l", "a", "m", "e", ".", "a", "u", "t", "h", "o", "r", "-", "m", "a", "i", "l">>
S_properties_blame_committer == <<"p", "r", "o", "p", "e", "r", "t", "i", "e", "s", ".", "b", "l", "a", "m", "e", ".", "c", "o", "m", "m", "i", "t", "t", "e", "r">>
S_properties_blame_committer_mail == <<"p", "r", "o", "p", "e", "r", "t", "i", "e", "s", ".", "b", "l", "a", "m", "e", ".", "c", "o", "m", "m", "i", "t", "t", "e", "r", "-", "m", "a", "i", "l">>
S_suppressions_kind == <<"s", "u", "p", "p", "r", "e", "s", "s", "i", "o", "n", "s", "[", "*", "]", ".", "k", "i", "n", "d">>
S_kind == <<"k", "i", "n", "d">>
S_message_text == <<"m", "e", "s", "s", "a", "g", "e", ".", "t", "e", "x", "t">>
S_message_id == <<"m", "e", "s", "s", "a", "g", "e", ".", "i", "d">>
S_ruleIndex == <<"r", "u", "l", "e", "I", "n", "d", "e", "x">>
S_rule_id == <<"r", "u", "l", "e", ".", "i", "d">>
S_rule_index == <<"r", "u", "l", "e", ".", "i", "n", "d", "e", "x">>
S_provenance_invocationIndex ==
    <<"p", "r", "o", "v", "e", "n", "a", "n", "c", "e", ".", "i", "n", "v", "o", "c", "a", "t", "i", "o", "n", "I", "n", "d", "e", "x">>
S_properties_filtered_state ==
    <<"p", "r", "o", "p", "e", "r", "t", "i", "e", "s", ".", "f", "i", "l", "t", "e", "r", "e", "d", ".", "s", "t", "a", "t", "e">>
S_properties_filtered_filter ==
    <<"p", "r", "o", "p", "e", "r", "t", "i", "e", "s", ".", "f", "i", "l", "t", "e", "r", "e", "d", ".", "f", "i", "l", "t", "e", "r">>
S_locations_physicalLocation == <<"l", "o", "c", "a", "t", "i", "o", "n", "s", "[", "*", "]", ".">>
    \o <<"p", "h", "y", "s", "i", "c", "a", "l", "L", "o", "c", "a", "t", "i", "o", "n", ".">>
S_locations_startLine == S_locations_physicalLocation \o <<"r", "e", "g", "i", "o", "n", ".", "s", "t", "a", "r", "t", "L", "i", "n", "e">>
S_locations_address_fqn ==
    S_locations_physicalLocation
        \o <<"a", "d", "d", "r", "e", "s", "s", ".", "f", "u", "l", "l", "y", "Q", "u", "a", "l", "i", "f", "i", "e", "d", "N", "a", "m", "e">>
S_locations_logical_fqn ==
    <<"l", "o", "c", "a", "t", "i", "o", "n", "s", "[", "*", "]", ".", "l", "o", "g", "i", "c", "a", "l", "L", "o", "c", "a", "t", "i", "o", "n", "s", "[", "*", "]", ".">>
        \o <<"f", "u", "l", "l", "y", "Q", "u", "a", "l", "i", "f", "i", "e", "d", "N", "a", "m", "e">>
S_locations_uri ==
    <<"l", "o", "c", "a", "t", "i", "o", "n", "s", "[", "*", "]", ".">>
        \o <<"p", "h", "y", "s", "i", "c", "a", "l", "L", "o", "c", "a", "t", "i", "o", "n", ".">>
        \o <<"a", "r", "t", "i", "f", "a", "c", "t", "L", "o", "c", "a", "t", "i", "o", "n", ".">>
        \o S_uri

\* FILTER_SHORTCUTS.get(prop_path, prop_path)
FILTER_SHORTCUTS(prop_path) ==
    CASE prop_path = S_author -> S_properties_blame_author
      [] prop_path = S_author_mail -> S_properties_blame_author_mail
      [] prop_path = S_committer -> S_properties_blame_committer
      [] prop_path = S_committer_mail -> S_properties_blame_committer_mail
      [] prop_path = S_location -> S_locations_uri
      [] prop_path = S_rule -> S_ruleId
      [] prop_path = S_suppression -> S_suppressions_kind
      [] OTHER -> prop_path

\* The keys of FIELDS_REGEX_SHORTCUTS
FIELDS_REGEX_SHORTCUTS == {S_uri}

\* property_name.split(".")[-1]
LastComponent(property_name) ==
    LET dots == {i \in 1..Len(property_name) : property_name[i] = "."}
    IN  IF dots = {} THEN property_name
        ELSE Slice(property_name, CHOOSE i \in dots : \A j \in dots : j <= i,
                   Len(property_name))

\* DEFAULT_CONFIGURATION
DEFAULT_CONFIGURATION == [default_include |-> TRUE, check_line_number |-> TRUE]

\* property_name.split(".")[-1] in FIELDS_REGEX_SHORTCUTS
LastComponentIsUri(property_name) ==
    LastComponent(property_name) \in FIELDS_REGEX_SHORTCUTS

\* _convert_glob_to_regex.  The glob characters * and ? are outside Alphabet, so
\* the substitution leaves the text as it is and only the /.../ wrapping shows.
convert_glob_to_regex(property_name, property_value_spec) ==
    IF /\ property_value_spec # <<>>
       /\ ~(StartsWith(property_value_spec, <<"/">>) /\ EndsWith(property_value_spec, <<"/">>))
       /\ LastComponentIsUri(property_name)
    THEN <<"/">> \o property_value_spec \o <<"/">>
    ELSE property_value_spec

\* re.search(regex, value, re.IGNORECASE) for a regex made of literal characters
\* and the wildcard ".".
RegexSearch(regex, value) ==
    \E off \in 0..(Len(value) - Len(regex)) :
        \A i \in 1..Len(regex) :
            \/ regex[i] = "." /\ value[off + i] # "\n"
            \/ regex[i] # "." /\ LowerChar(regex[i]) = LowerChar(value[off + i])

\* The function returned by _get_filter_function(filter_spec), applied to value.
filter_function(filter_spec, value) ==
    IF filter_spec # <<>>
    THEN IF /\ Len(filter_spec) > 2
            /\ StartsWith(filter_spec, <<"/">>)
            /\ EndsWith(filter_spec, <<"/">>)
         THEN RegexSearch(Slice(filter_spec, 1, Len(filter_spec) - 1), value)
         ELSE Contains(value, filter_spec)
    ELSE TRUE

\* property_filter.filter_function(value) of _filter_result line 236, for the
\* value that the path found: re.search and the operator "in" of a str take
\* a str alone and raise TypeError for a number; the function of an empty
\* spec does not look at the value.
filter_function_of_value(filter_spec, value) ==
    IF filter_spec # <<>> /\ value.kind # "str"
    THEN [raised |-> TRUE, ret |-> FALSE]
    ELSE [raised |-> FALSE, ret |-> filter_function(filter_spec, value.str)]

\* A value spec that is a plain string.
StrSpec(s) ==
    [is_dict |-> FALSE, str |-> s, value |-> None,
     default_include |-> None, check_line_number |-> None]

\* A value spec that is a dict with optional keys value, default-include and
\* check-line-number.
DictSpec(value, di, cln) ==
    [is_dict |-> TRUE, str |-> <<>>, value |-> value,
     default_include |-> di, check_line_number |-> cln]

\* dict.update restricted to the two configuration keys.
ConfigUpdate(base, overrides) ==
    [default_include |->
        IF overrides.default_include # None
        THEN overrides.default_include[1] ELSE base.default_include,
     check_line_number |->
        IF overrides.check_line_number # None
        THEN overrides.check_line_number[1] ELSE base.check_line_number]

\* PropertyFilter.__init__: the term of a dict value spec has a configuration
\* of its own (the deep copy of line 90), the term of a string value spec
\* holds the configuration dict of the GeneralFilter itself (line 97), which
\* shares_configuration records.
PropertyFilter(prop_path, prop_value_spec, global_configuration) ==
    LET resolved_prop_path == FILTER_SHORTCUTS(prop_path)
        filter_configuration ==
            IF prop_value_spec.is_dict
            THEN ConfigUpdate(global_configuration, prop_value_spec)
            ELSE global_configuration
        spec == IF prop_value_spec.is_dict
                THEN (IF prop_value_spec.value # None
                      THEN prop_value_spec.value[1] ELSE <<>>)
                ELSE prop_value_spec.str
    IN  [prop_path |-> prop_path,
         jsonpath_expr |-> resolved_prop_path,
         filter_configuration |-> filter_configuration,
         shares_configuration |-> ~prop_value_spec.is_dict,
         value_spec |-> convert_glob_to_regex(resolved_prop_path, spec)]

\* MultiPropertyFilter.__init__; a filter spec is the sequence of its
\* (prop_path, prop_value_spec) items in dict order.
MultiPropertyFilter(filter_spec, global_filter_configuration) ==
    [filter_spec |-> filter_spec,
     and_terms |-> [i \in 1..Len(filter_spec) |->
                       PropertyFilter(filter_spec[i].prop_path,
                                      filter_spec[i].prop_value_spec,
                                      global_filter_configuration)]]

\* self.configuration.update(configuration) of init_filter line 153 as the
\* terms of one compiled filter see it: those that hold the dict that is
\* updated have the updated configuration at once.
update_shared_in_terms(and_terms, updated) ==
    [t \in 1..Len(and_terms) |->
        IF and_terms[t].shares_configuration
        THEN [and_terms[t] EXCEPT !.filter_configuration = updated]
        ELSE and_terms[t]]

\* The same for a list of compiled filters.
update_shared(filters, updated) ==
    [f \in 1..Len(filters) |->
        [filters[f] EXCEPT !.and_terms = update_shared_in_terms(filters[f].and_terms, updated)]]

\* _compile_filters: empty filter specs are dropped.
RECURSIVE compile_filters(_, _)
compile_filters(filters, global_filter_configuration) ==
    IF filters = <<>> THEN <<>>
    ELSE (IF Head(filters) # <<>>
          THEN <<MultiPropertyFilter(Head(filters), global_filter_configuration)>>
          ELSE <<>>)
         \o compile_filters(Tail(filters), global_filter_configuration)

-----------------------------------------------------------------------------
(* filter_stats.py *)

\* FilterStats.__init__
FilterStats(filter_description) ==
    [filter_description |-> filter_description,
     rehydrated |-> FALSE,
     filter_datetime |-> "None",
     filtered_in_result_count |-> 0,
     filtered_out_result_count |-> 0,
     missing_property_count |-> 0,
     unconvincing_line_number_count |-> 0]

\* FilterStats.reset_counters
reset_counters(stats) ==
    [stats EXCEPT !.filter_datetime = "now",
                  !.filtered_in_result_count = 0,
                  !.filtered_out_result_count = 0,
                  !.missing_property_count = 0,
                  !.unconvincing_line_number_count = 0]

\* FilterStats.add lines 38-41: the description of the other stats is
\* appended unless it is empty or equal to the whole description so far.
merged_description(filter_description, other_description) ==
    IF other_description # <<>> /\ other_description # filter_description
    THEN filter_description \o <<",", " ">> \o other_description
    ELSE filter_description

\* FilterStats.add; other_filter_stats is optional.
add(stats, other_filter_stats) ==
    IF other_filter_stats = None THEN stats
    ELSE [stats EXCEPT
            !.filter_description =
                merged_description(@, other_filter_stats[1].filter_description),
            !.filtered_in_result_count = @ + other_filter_stats[1].filtered_in_result_count,
            !.filtered_out_result_count = @ + other_filter_stats[1].filtered_out_result_count,
            !.missing_property_count = @ + other_filter_stats[1].missing_property_count,
            !.unconvincing_line_number_count =
                @ + other_filter_stats[1].unconvincing_line_number_count]

\* FilterStats.to_json_camel_case
to_json_camel_case(stats) ==
    [filter |-> stats.filter_description,
     in |-> Some(stats.filtered_in_result_count),
     out |-> Some(stats.filtered_out_result_count),
     default |-> Some([noProperty |-> Some(stats.missing_property_count),
                       noLineNumber |-> Some(stats.unconvincing_line_number_count)])]

\* dict.get(key, 0) for an optional number.
GetOr0(value) == IF value = None THEN 0 ELSE value[1]

\* load_filter_stats_from_json lines 109-111: the two counters of "default".
load_default_stats_swapped(stats, default_stats) ==
    IF default_stats = None THEN stats
    ELSE [stats EXCEPT !.unconvincing_line_number_count = GetOr0(default_stats[1].noProperty),
                       !.missing_property_count = GetOr0(default_stats[1].noLineNumber)]

load_default_stats(stats, default_stats) ==
    IF default_stats = None THEN stats
    ELSE [stats EXCEPT !.unconvincing_line_number_count = GetOr0(default_stats[1].noLineNumber),
                       !.missing_property_count = GetOr0(default_stats[1].noProperty)]

\* load_filter_stats_from_json; json_data is optional (None or an empty
\* dict give None).
load_filter_stats_from_json(json_data) ==
    IF json_data = None THEN None
    ELSE Some(load_default_stats(
                 [FilterStats(json_data[1].filter) EXCEPT
                     !.rehydrated = TRUE,
                     !.filtered_in_result_count = GetOr0(json_data[1].in),
                     !.filtered_out_result_count = GetOr0(json_data[1].out)],
                 json_data[1].default))

-----------------------------------------------------------------------------
(* general_filter.py: evaluating filters *)

\* jsonpath_expr.find(result): the values the path resolves to, in order,
\* each a JSON string or number.
\* The values of one key of the objects of a list that have it.
RECURSIVE FindInList(_, _)
FindInList(objects, key) ==
    IF objects = <<>> THEN <<>>
    ELSE Head(objects)[key] \o FindInList(Tail(objects), key)

\* The value of one key of an optional object.
FindInObject(object, key) == IF object = None THEN <<>> ELSE object[1][key]

\* locations[*].logicalLocations[*].fullyQualifiedName
RECURSIVE FindLogical(_)
FindLogical(locations) ==
    IF locations = <<>> THEN <<>>
    ELSE FindInList(Head(locations).logicalLocations, "fullyQualifiedName")
         \o FindLogical(Tail(locations))

\* Values that are JSON strings, and values that are JSON numbers.
StrValues(values) == [k \in 1..Len(values) |-> StrLine(values[k])]
IntValues(values) == [k \in 1..Len(values) |-> IntLine(values[k])]

\* The text of the state of a filter log.
StateText(state) ==
    CASE state = "included" -> <<"i", "n", "c", "l", "u", "d", "e", "d">>
      [] state = "noProperty" -> <<"n", "o", "P", "r", "o", "p", "e", "r", "t", "y">>
      [] state = "noLineNumber" ->
            <<"n", "o", "L", "i", "n", "e", "N", "u", "m", "b", "e", "r">>

\* The paths to the properties that a result of the model carries and that
\* hold a string or a number, those of FILTER_SHORTCUTS among them. A path to
\* a property that no result of the model carries finds nothing; the paths to
\* whole objects and lists (message, locations, properties) are left out.
\* ruleIndex, rule.index and provenance.invocationIndex hold numbers,
\* region.startLine a number or a string, the other paths strings.
Find(jsonpath_expr, result) ==
    CASE jsonpath_expr = S_ruleId -> StrValues(Get(result, "ruleId"))
      [] jsonpath_expr = S_ruleIndex -> IntValues(Get(result, "ruleIndex"))
      [] jsonpath_expr = S_rule_id -> StrValues(FindInObject(Get(result, "rule"), "id"))
      [] jsonpath_expr = S_rule_index ->
            IntValues(FindInObject(Get(result, "rule"), "index"))
      [] jsonpath_expr = S_level -> StrValues(Get(result, "level"))
      [] jsonpath_expr = S_kind -> StrValues(Get(result, "kind"))
      [] jsonpath_expr = S_message_text ->
            StrValues(FindInObject(Get(result, "message"), "text"))
      [] jsonpath_expr = S_message_id ->
            StrValues(FindInObject(Get(result, "message"), "id"))
      [] jsonpath_expr = S_provenance_invocationIndex ->
            IntValues(FindInObject(Get(result, "provenance"), "invocationIndex"))
      [] jsonpath_expr = S_properties_blame_author ->
            StrValues(Get(result, "blame_author"))
      [] jsonpath_expr = S_properties_blame_author_mail ->
            StrValues(Get(result, "blame_author_mail"))
      [] jsonpath_expr = S_properties_blame_committer ->
            StrValues(Get(result, "blame_committer"))
      [] jsonpath_expr = S_properties_blame_committer_mail ->
            StrValues(Get(result, "blame_committer_mail"))
      [] jsonpath_expr = S_properties_filtered_state ->
            IF Get(result, "filtered") = None THEN <<>>
            ELSE <<StrLine(StateText(Get(result, "filtered")[1].state))>>
      [] jsonpath_expr = S_properties_filtered_filter ->
            IF Get(result, "filtered") = None THEN <<>>
            ELSE <<StrLine(Get(result, "filtered")[1].filter)>>
      [] jsonpath_expr = S_suppressions_kind ->
            StrValues(FindInList(Get(result, "suppressions"), "kind"))
      [] jsonpath_expr = S_locations_uri ->
            StrValues(FindInList(Get(result, "locations"), "uri"))
      [] jsonpath_expr = S_locations_startLine ->
            FindInList(Get(result, "locations"), "startLine")
      [] jsonpath_expr = S_locations_address_fqn ->
            StrValues(FindInList(Get(result, "locations"), "address_fqn"))
      [] jsonpath_expr = S_locations_logical_fqn ->
            StrValues(FindLogical(Get(result, "locations")))
      [] OTHER -> <<>>

\* general_filter.py line 210
unconvincing_line_number(line_number) ==
    \/ (line_number # None /\ line_number[1].kind = "str" /\ line_number[1].str = S_1)
    \/ ~Truthy(line_number)

Warning(kind, prop_path) == [kind |-> kind, field |-> prop_path]

\* The loop over mpf.and_terms in _filter_result (lines 219-250); acc carries
\* matched, warnings and default_include_noprop, and raised once the filter
\* function of a term has raised TypeError (line 236), which ends the loop.
RECURSIVE and_terms_loop(_, _, _, _, _)
and_terms_loop(and_terms, i, result, unconvincing, acc) ==
    IF i > Len(and_terms) THEN acc
    ELSE
      LET property_filter == and_terms[i]
          found_results == Find(property_filter.jsonpath_expr, result)
      IN  IF property_filter.filter_configuration.check_line_number /\ unconvincing
          THEN and_terms_loop(and_terms, i + 1, result, unconvincing,
                   [acc EXCEPT !.warnings =
                       Append(@, Warning("not_checked", property_filter.prop_path))])
          ELSE IF found_results # <<>>
               /\ filter_function_of_value(property_filter.value_spec,
                                           found_results[1]).raised
          THEN [acc EXCEPT !.matched = FALSE, !.raised = TRUE]
          ELSE IF found_results # <<>>
               /\ filter_function_of_value(property_filter.value_spec,
                                           found_results[1]).ret
          THEN and_terms_loop(and_terms, i + 1, result, unconvincing, acc)
          ELSE IF found_results = <<>>
               /\ property_filter.filter_configuration.default_include
          THEN and_terms_loop(and_terms, i + 1, result, unconvincing,
                   [acc EXCEPT !.warnings =
                       Append(@, Warning("missing", property_filter.prop_path)),
                               !.default_include_noprop = TRUE])
          ELSE [acc EXCEPT !.matched = FALSE]

\* Lines 251-253: a filter whose terms all matched or were skipped is recorded.
append_if_matched(mpf, after) ==
    IF after.matched
    THEN [after EXCEPT !.matched_filters = Append(@, mpf.filter_spec)]
    ELSE after

\* The loop over filters in _filter_result (lines 213-253); it breaks at the
\* first filter that matched, and a TypeError raised by a term leaves it.
RECURSIVE filters_loop(_, _, _, _, _)
filters_loop(filters, k, result, unconvincing, acc) ==
    IF k > Len(filters) \/ acc.matched_filters # <<>> \/ acc.raised THEN acc
    ELSE filters_loop(filters, k + 1, result, unconvincing,
             append_if_matched(filters[k],
                 and_terms_loop(filters[k].and_terms, 1, result, unconvincing,
                                [acc EXCEPT !.matched = TRUE])))

\* Lines 255-268: the stats dict returned by _filter_result, unless a term
\* raised TypeError.
filter_result_stats(out) ==
    [raised |-> out.raised,
     state |-> IF out.warnings # <<>>
               THEN (IF out.default_include_noprop
                     THEN "noProperty" ELSE "noLineNumber")
               ELSE "included",
     matchedFilter |-> out.matched_filters,
     warnings |-> out.warnings]

\* GeneralFilter._filter_result
filter_result(result, filters) ==
    filter_result_stats(
        filters_loop(filters, 1, result,
            unconvincing_line_number(read_result_location(result).line_number),
            [matched |-> FALSE, matched_filters |-> <<>>, warnings |-> <<>>,
             default_include_noprop |-> FALSE, raised |-> FALSE]))

\* general_filter.py line 176 with the pop left out: an existing filter log
\* stays on the result.
remove_filter_log_kept(result) == result

\* general_filter.py line 176: remove any existing filter log on the result.
remove_filter_log(result) == [result EXCEPT !.filtered = None]

\* GeneralFilter.rehydrate_filter_stats; dehydrated_filter_stats is the
\* "filtered" property bag, filter_datetime the parsed date or "None".
rehydrate_filter_stats(dehydrated_filter_stats, filter_datetime) ==
    Some([load_filter_stats_from_json(Some(dehydrated_filter_stats))[1] EXCEPT
             !.filter_datetime = filter_datetime])

\* GeneralFilter._zero_counts
zero_counts(stats) ==
    IF stats # None THEN Some(reset_counters(stats[1])) ELSE stats

\* _filter_append lines 178-204, given the outcome of _filter_result for the
\* inclusion and for the exclusion filters: a TypeError of the inclusion
\* filters (line 179), or of the exclusion filters when they are evaluated
\* (line 189), leaves _filter_append with the counters as they are.
filter_append_decide(g, stats, result, included_stats, excluded_stats) ==
    IF g.apply_inclusion_filter /\ included_stats.raised
    THEN [stats |-> stats, result |-> result, appended |-> FALSE, raised |-> TRUE]
    ELSE IF g.apply_inclusion_filter /\ included_stats.matchedFilter = <<>>
    THEN [stats |-> [stats EXCEPT !.filtered_out_result_count = @ + 1],
          result |-> result, appended |-> FALSE, raised |-> FALSE]
    ELSE IF g.apply_exclusion_filter /\ excluded_stats.raised
    THEN [stats |-> stats, result |-> result, appended |-> FALSE, raised |-> TRUE]
    ELSE IF g.apply_exclusion_filter /\ excluded_stats.matchedFilter # <<>>
    THEN [stats |-> [stats EXCEPT !.filtered_out_result_count = @ + 1],
          result |-> result, appended |-> FALSE, raised |-> FALSE]
    ELSE [stats |->
             CASE included_stats.state = "included" ->
                    [stats EXCEPT !.filtered_in_result_count = @ + 1]
               [] included_stats.state = "noLineNumber" ->
                    [stats EXCEPT !.unconvincing_line_number_count = @ + 1]
               [] OTHER ->
                    [stats EXCEPT !.missing_property_count = @ + 1],
          result |-> [result EXCEPT !.filtered =
                         Some([state |-> included_stats.state,
                               matchedFilter |-> included_stats.matchedFilter,
                               warnings |-> included_stats.warnings,
                               filter |-> stats.filter_description])],
          appended |-> TRUE, raised |-> FALSE]

\* _filter_append after line 176, for a result without filter log.
filter_append_result(g, stats, result) ==
    filter_append_decide(g, stats, result,
        IF g.apply_inclusion_filter
        THEN filter_result(result, g.include_filters)
        ELSE [raised |-> FALSE, state |-> "included", matchedFilter |-> <<>>,
              warnings |-> <<>>],
        filter_result(result, g.exclude_filters))

\* GeneralFilter._filter_append for one result; g is the filter object.  Returns
\* the updated stats, the updated result, whether it was appended and whether
\* TypeError was raised; the filter log of the result is removed in each case.
filter_append(g, stats, result0) ==
    filter_append_result(g, stats, remove_filter_log(result0))

\* One round of the loop of filter_results, given what _filter_append did.
filter_results_step(acc, i, step) ==
    [stats |-> step.stats,
     results |-> [acc.results EXCEPT ![i] = step.result],
     ret |-> IF step.appended THEN Append(acc.ret, i) ELSE acc.ret,
     raised |-> step.raised]

\* The loop of filter_results (lines 278-281) from result i on; a TypeError
\* raised for a result leaves it, with the results before counted and
\* annotated.
RECURSIVE filter_results_loop(_, _, _)
filter_results_loop(g, i, acc) ==
    IF i > Len(acc.results) \/ acc.raised THEN acc
    ELSE filter_results_loop(g, i + 1,
             filter_results_step(acc, i, filter_append(g, acc.stats, acc.results[i])))

\* What filter_results leaves and returns after its loop, or leaves when
\* TypeError is raised, where nothing is returned.
filter_results_return(done) ==
    [stats |-> Some(done.stats), results |-> done.results,
     ret |-> IF done.raised THEN <<>> ELSE done.ret, raised |-> done.raised]

\* GeneralFilter.filter_results with the counters reset whether or not a
\* filter is installed.
filter_results_resetting(g, stats, rs) ==
    IF g.apply_inclusion_filter \/ g.apply_exclusion_filter
    THEN filter_results_return(
             filter_results_loop(g, 1,
                 [stats |-> zero_counts(stats)[1], results |-> rs, ret |-> <<>>,
                  raised |-> FALSE]))
    ELSE [stats |-> zero_counts(stats), results |-> rs, ret |-> [i \in 1..Len(rs) |-> i],
          raised |-> FALSE]

\* GeneralFilter.filter_results: the stats, the (annotated) results and the
\* returned list, as indexes into the results, or TypeError raised.
filter_results(g, stats, rs) ==
    IF g.apply_inclusion_filter \/ g.apply_exclusion_filter
    THEN filter_results_return(
             filter_results_loop(g, 1,
                 [stats |-> zero_counts(stats)[1], results |-> rs, ret |-> <<>>,
                  raised |-> FALSE]))
    ELSE [stats |-> stats, results |-> rs, ret |-> [i \in 1..Len(rs) |-> i],
          raised |-> FALSE]

-----------------------------------------------------------------------------
(* sarif_file_utils.py: issue keys and sort keys *)

\* SARIF_SEVERITIES_WITHOUT_NONE and SARIF_SEVERITIES_WITH_NONE
SARIF_SEVERITIES_WITHOUT_NONE == <<S_error, S_warning, S_note>>
SARIF_SEVERITIES_WITH_NONE == SARIF_SEVERITIES_WITHOUT_NONE \o <<S_none>>

\* length_budget of combine_code_and_description
LengthBudget == 120

\* len(shorter_description) < length_budget_pre_continuation - 40
WordWrapLossLimit == 40

\* length_budget_pre_continuation < 10
MinDescriptionBudget == 10

continuation_placeholder == <<" ", ".", ".", ".">>

\* ' '.join(text.strip().split()): the text with its outer whitespace removed
\* and every inner run of whitespace replaced by one blank.
NormalizeSpace(text) ==
    LET kept == {i \in 1..Len(text) :
                    \/ ~IsSpace(text[i])
                    \/ /\ i > 1 /\ ~IsSpace(text[i - 1])
                       /\ \E j \in (i + 1)..Len(text) : ~IsSpace(text[j])}
        nth(k) == CHOOSE i \in kept : Cardinality({j \in kept : j < i}) = k - 1
    IN  [k \in 1..Cardinality(kept) |->
            IF IsSpace(text[nth(k)]) THEN " " ELSE text[nth(k)]]

\* textwrap.shorten on text whose whitespace is normalized.
shorten_normalized(normal, width, placeholder) ==
    LET word_ends == {p \in 1..(width - Len(placeholder)) :
                         /\ p < Len(normal)
                         /\ normal[p] # " " /\ normal[p + 1] = " "}
    IN  IF Len(normal) <= width THEN normal
        ELSE IF word_ends = {} THEN LStrip(placeholder)
        ELSE SubSeq(normal, 1, CHOOSE p \in word_ends : \A q \in word_ends : q <= p)
                 \o placeholder

\* textwrap.shorten(text, width=width, placeholder=placeholder) for text whose
\* words hold no hyphen at which textwrap would split them: the text is kept
\* when it fits, else it is cut after the last word that leaves room for the
\* placeholder (a word too long for the width is never kept in part).
Shorten(text, width, placeholder) ==
    shorten_normalized(NormalizeSpace(text), width, placeholder)

\* Lines 32-33: the description up to its first newline, at index newline.
first_line(description, newline) ==
    IF newline >= 0 THEN Slice(description, 0, newline) ELSE description

\* Lines 34-36: the description without the code it starts with.
without_code(description, code) ==
    IF StartsWith(description, code)
    THEN Slice(description, Len(code), Len(description))
    ELSE description

\* Lines 31-37: the description as prepared for shortening.
prepare_description(code, description) ==
    IF description # <<>>
    THEN Strip(without_code(first_line(description, IndexOf(description, "\n")), code))
    ELSE description

\* Lines 45-52: the word-wrapped description, or the one cut mid-word.
choose_shorter(description, length_budget_pre_continuation, shorter_description) ==
    IF Len(shorter_description) < length_budget_pre_continuation - WordWrapLossLimit
    THEN Slice(description, 0, length_budget_pre_continuation) \o continuation_placeholder
    ELSE shorter_description

\* Lines 39-52: the description shortened to the length budget.
shorten_description(description, length_budget) ==
    IF Len(description) > length_budget
    THEN choose_shorter(description, length_budget - Len(continuation_placeholder),
             Shorten(description, length_budget - Len(continuation_placeholder),
                     continuation_placeholder))
    ELSE description

\* Lines 53-55: code and description joined.
join_code_and_description(code, description) ==
    IF code # <<>> THEN Strip(code) \o <<" ">> \o description ELSE description

\* Lines 27-58, for the stripped code, the length budget and the prepared description.
combine_within_budget(code, length_budget, description) ==
    IF length_budget - Len(continuation_placeholder) < MinDescriptionBudget THEN code
    ELSE IF description # <<>>
    THEN join_code_and_description(code, shorten_description(description, length_budget))
    ELSE IF code # <<>> THEN code
    ELSE <<"<", "N", "O", "N", "E", ">">>

\* Lines 21-24 and 27-58, for the stripped code; code_given is the truth
\* value of the code before it was stripped.
combine_stripped(code, code_given, description) ==
    combine_within_budget(code,
        IF code_given THEN LengthBudget - (Len(code) + 1) ELSE LengthBudget,
        prepare_description(code, description))

\* combine_code_and_description
combine_code_and_description(code, description) ==
    combine_stripped(IF code # <<>> THEN Strip(code) ELSE code, code # <<>>, description)

\* combine_record_code_and_description
combine_record_code_and_description(record) ==
    combine_code_and_description(record.Code, record.Description)

\* str(record["Line"]) for a line that is None, an int or a str.
StrOfLine(line) ==
    IF line = None THEN <<"N", "o", "n", "e">>
    ELSE IF line[1].kind = "int" THEN StrOfNat(line[1].int)
    ELSE line[1].str

\* Width of the zero-padded line number in record_sort_key.
LineKeyWidth == 6

\* record_sort_key
record_sort_key(record) ==
    combine_record_code_and_description(record)
        \o record.Location
        \o ZFill(StrOfLine(record.Line), LineKeyWidth)

-----------------------------------------------------------------------------
(* issues_report.py: grouping and sorting.  A Python dict is the sequence of *)
(* its entries in insertion order.                                          *)

\* Position of the entry for code in code_to_key_and_count, or 0.
CodeIndex(code_to_key_and_count, code) ==
    IF \E k \in 1..Len(code_to_key_and_count) : code_to_key_and_count[k].code = code
    THEN CHOOSE k \in 1..Len(code_to_key_and_count) :
             code_to_key_and_count[k].code = code
    ELSE 0

\* Lines 58-61: the 0-based position of the first pair of zip(a, b) that
\* differs, or -1 when zip(a, b) holds no such pair.
first_difference(a, b) ==
    LET n == IF Len(a) < Len(b) THEN Len(a) ELSE Len(b)
        differ == {i \in 1..n : a[i] # b[i]}
    IN  IF differ = {} THEN -1
        ELSE (CHOOSE i \in differ : \A j \in differ : i <= j) - 1

\* Lines 62-66: the stem and the key of a code are replaced.
set_stem(code, key_and_count, new_desc_stem) ==
    [key_and_count EXCEPT
        !.common_desc = new_desc_stem,
        !.key = combine_code_and_description(
                    code, new_desc_stem \o continuation_placeholder)]

\* Lines 58-67: the stem is cut at char_pos, if the loop found one.
shrink_at(code, key_and_count, char_pos) ==
    IF char_pos >= 0
    THEN set_stem(code, key_and_count, Slice(key_and_count.common_desc, 0, char_pos))
    ELSE key_and_count

\* issues_report.py lines 55-67: shrink the common description stem of a code
\* to what it shares with desc, at the first position where the two differ.
shrink_stem(code, key_and_count, desc) ==
    IF ~StartsWith(desc, key_and_count.common_desc)
    THEN shrink_at(code, key_and_count, first_difference(key_and_count.common_desc, desc))
    ELSE key_and_count

\* _group_records_by_key lines 43-67: the code_to_key_and_count built from the
\* records of one severity, from record i on.
RECURSIVE code_to_key_and_count_loop(_, _, _)
code_to_key_and_count_loop(issues, i, acc) ==
    IF i > Len(issues) THEN acc
    ELSE
      LET record == issues[i]
          code == record.Code
          k == CodeIndex(acc, code)
      IN  IF k = 0
          THEN code_to_key_and_count_loop(issues, i + 1,
                   Append(acc, [code |-> code,
                                key |-> combine_record_code_and_description(record),
                                common_desc |-> record.Description,
                                count |-> 1]))
          ELSE code_to_key_and_count_loop(issues, i + 1,
                   [acc EXCEPT ![k] =
                       shrink_stem(code, [@ EXCEPT !.count = @ + 1], record.Description)])

code_to_key_and_count(issues) == code_to_key_and_count_loop(issues, 1, <<>>)

\* sorted(codes, key=count, reverse=True): a stable sort by descending count.
RECURSIVE sorted_codes_loop(_, _, _)
sorted_codes_loop(entries, i, acc) ==
    IF i > Len(entries) THEN acc
    ELSE LET e == entries[i]
             before == Cardinality({k \in 1..Len(acc) : acc[k].count >= e.count})
         IN  sorted_codes_loop(entries, i + 1,
                 SubSeq(acc, 1, before) \o <<e>> \o SubSeq(acc, before + 1, Len(acc)))

sorted_codes(entries) == sorted_codes_loop(entries, 1, <<>>)

\* The dict comprehension of lines 73-75: one empty list per key, a key that
\* occurs again keeps its first position.
RECURSIVE empty_key_lists(_, _, _)
empty_key_lists(entries, i, acc) ==
    IF i > Len(entries) THEN acc
    ELSE IF \E k \in 1..Len(acc) : acc[k].key = entries[i].key
    THEN empty_key_lists(entries, i + 1, acc)
    ELSE empty_key_lists(entries, i + 1,
             Append(acc, [key |-> entries[i].key, records |-> <<>>]))

\* Lines 76-81: append each record to the list of the key of its code.
RECURSIVE fill_key_lists(_, _, _, _)
fill_key_lists(issues, i, entries, acc) ==
    IF i > Len(issues) THEN acc
    ELSE LET key == entries[CodeIndex(entries, issues[i].Code)].key
             k == CHOOSE k \in 1..Len(acc) : acc[k].key = key
         IN  fill_key_lists(issues, i + 1, entries,
                 [acc EXCEPT ![k].records = Append(@, issues[i])])

\* Lines 68-81: the key lists built from code_to_key_and_count.
group_by_entries(issues, entries) ==
    fill_key_lists(issues, 1, entries, empty_key_lists(sorted_codes(entries), 1, <<>>))

\* _group_records_by_key for the records of one severity.
group_one_severity(issues) == group_by_entries(issues, code_to_key_and_count(issues))

\* IssuesReport._group_records_by_key: the new _sev_to_sorted_keys.
group_records_by_key(records_by_sev) ==
    [severity \in DOMAIN records_by_sev |-> group_one_severity(records_by_sev[severity])]

\* Where a stable sort puts a record of sort key key among the sorted acc.
insertion_point(acc, key) ==
    Cardinality({k \in 1..Len(acc) : ~StrLess(key, record_sort_key(acc[k]))})

insert_at(acc, record, before) ==
    SubSeq(acc, 1, before) \o <<record>> \o SubSeq(acc, before + 1, Len(acc))

\* list.sort(key=record_sort_key): a stable sort.
RECURSIVE sort_records_loop(_, _, _)
sort_records_loop(records, i, acc) ==
    IF i > Len(records) THEN acc
    ELSE sort_records_loop(records, i + 1,
             insert_at(acc, records[i],
                       insertion_point(acc, record_sort_key(records[i]))))

sort_records(records) == sort_records_loop(records, 1, <<>>)

\* An IssuesReport object.
Report(records_by_sev, sorted_keys, sorted) ==
    [sev_to_records |-> records_by_sev,
     sev_to_sorted_keys |-> sorted_keys,
     records_have_been_sorted |-> sorted]

\* IssuesReport.__init__
NewReport ==
    Report([sev \in {SARIF_SEVERITIES_WITH_NONE[k] : k \in 1..4} |-> <<>>], None, FALSE)

\* IssuesReport.add_record
add_record(report, record) ==
    Report(IF record.Severity \in DOMAIN report.sev_to_records
           THEN [report.sev_to_records EXCEPT ![record.Severity] = Append(@, record)]
           ELSE [sev \in DOMAIN report.sev_to_records \cup {record.Severity} |->
                    IF sev = record.Severity THEN <<record>>
                    ELSE report.sev_to_records[sev]],
           IF report.records_have_been_sorted THEN None ELSE report.sev_to_sorted_keys,
           FALSE)

\* "if self._sev_to_sorted_keys is None: self._group_records_by_key()"
ensure_grouped(report) ==
    IF report.sev_to_sorted_keys = None
    THEN [report EXCEPT !.sev_to_sorted_keys =
             Some(group_records_by_key(report.sev_to_records))]
    ELSE report

\* _sort_record_lists lines 86-88: every record list of every severity is sorted.
sort_key_lists(keys) ==
    [sev \in DOMAIN keys |->
        [k \in 1..Len(keys[sev]) |->
            [keys[sev][k] EXCEPT !.records = sort_records(@)]]]

\* _sort_record_lists lines 86-89, for a report that is grouped.
sort_grouped(grouped) ==
    [grouped EXCEPT
        !.sev_to_sorted_keys = Some(sort_key_lists(grouped.sev_to_sorted_keys[1])),
        !.records_have_been_sorted = TRUE]

\* IssuesReport._sort_record_lists
sort_record_lists(report) == sort_grouped(ensure_grouped(report))

\* dict.get(severity, default) on _sev_to_sorted_keys
SortedKeysGet(report, severity) ==
    IF severity \in DOMAIN report.sev_to_sorted_keys[1]
    THEN report.sev_to_sorted_keys[1][severity] ELSE <<>>

\* IssuesReport.get_issue_count_for_severity
get_issue_count_for_severity(report, severity) ==
    IF severity \in DOMAIN report.sev_to_records
    THEN Len(report.sev_to_records[severity]) ELSE 0

\* The report as a query leaves it and the value of its key lists at severity.
Answer(after, severity) == [report |-> after, value |-> SortedKeysGet(after, severity)]

\* IssuesReport.get_issue_type_count_for_severity: the report afterwards and
\* the value returned.
get_issue_type_count_for_severity(report, severity) ==
    [Answer(ensure_grouped(report), severity) EXCEPT !.value = Len(@)]

\* IssuesReport.get_issues_grouped_by_type_for_severity
get_issues_grouped_by_type_for_severity(report, severity) ==
    Answer(IF ~report.records_have_been_sorted THEN sort_record_lists(report) ELSE report,
           severity)

\* IssuesReport.get_issue_type_histogram_for_severity
get_issue_type_histogram_for_severity(report, severity) ==
    [get_issues_grouped_by_type_for_severity(ensure_grouped(report), severity)
        EXCEPT !.value = [k \in 1..Len(@) |->
                             [key |-> @[k].key, count |-> Len(@[k].records)]]]

RECURSIVE Flatten(_)
Flatten(lists) == IF lists = <<>> THEN <<>> ELSE Head(lists) \o Flatten(Tail(lists))

\* The record lists of a grouping.
RecordLists(groups) == [k \in 1..Len(groups) |-> groups[k].records]

\* IssuesReport.get_issues_for_severity
get_issues_for_severity(report, severity) ==
    [get_issues_grouped_by_type_for_severity(report, severity)
        EXCEPT !.value = Flatten(RecordLists(@))]

\* IssuesReport.any_none_severities
any_none_severities(report) ==
    S_none \in DOMAIN report.sev_to_records /\ report.sev_to_records[S_none] # <<>>

\* IssuesReport.get_severities
get_severities(report) ==
    IF any_none_severities(report)
    THEN SARIF_SEVERITIES_WITH_NONE ELSE SARIF_SEVERITIES_WITHOUT_NONE

\* SarifRun.get_report (lines 158-163 of its loop): a new report holding the records.
RECURSIVE add_records(_, _)
add_records(report, records) ==
    IF records = <<>> THEN report
    ELSE add_records(add_record(report, Head(records)), Tail(records))

get_report(records) == add_records(NewReport, records)

-----------------------------------------------------------------------------
(* sarif_file.py: SarifRun.  run_data is the record of the tool name, the    *)
(* rule table and the invocations of the run; its results are a list.       *)

\* _SLASHES
SLASHES == {"\\", "/"}

S_dash == <<"-">>

\* result_to_record lines 235-238
file_path_or_placeholder(file_path) ==
    IF file_path = None \/ file_path[1] = <<>> THEN S_dash ELSE file_path[1]

\* result_to_record lines 239-240.  The _default_line_number of the run is
\* not read.
line_number_or_1(line_number) ==
    IF ~Truthy(line_number) THEN Some(StrLine(S_1)) ELSE line_number

\* result_to_record lines 246-251
strip_prefix(file_path, prefixlen) ==
    IF Len(file_path) > prefixlen /\ file_path[prefixlen + 1] \in SLASHES
    THEN Slice(file_path, prefixlen + 1, Len(file_path))
    ELSE Slice(file_path, prefixlen, Len(file_path))

\* result_to_record lines 243-252: the first prefix the path starts with is
\* stripped.
strip_first_prefix(file_path, prefixes) ==
    LET hits == {k \in 1..Len(prefixes) : StartsWith(Upper(file_path), prefixes[k])}
    IN  IF hits = {} THEN file_path
        ELSE strip_prefix(file_path,
                 Len(prefixes[CHOOSE k \in hits : \A j \in hits : k <= j]))

\* result_to_record lines 242-252
strip_path_prefixes(file_path, prefixes_upper) ==
    IF prefixes_upper # None /\ prefixes_upper[1] # <<>>
    THEN strip_first_prefix(file_path, prefixes_upper[1])
    ELSE file_path

\* result_to_record lines 256-272: the message (text, else id; the rule id
\* when the result has no message), or None where IOError is raised.
message_of(result, error_id) ==
    IF Get(result, "message") = None THEN Some(error_id)
    ELSE IF Get(result, "message")[1].text # None THEN Get(result, "message")[1].text
    ELSE Get(result, "message")[1].id

\* result_to_record lines 281-285
description_of(message, error_id) ==
    IF StartsWith(message, error_id) /\ Len(message) > Len(error_id) + 1
    THEN Strip(<<message[Len(error_id) + 2]>>)
    ELSE message

\* "if blame_info": properties.blame of the result is a non-empty dict, one
\* that has the author, the author-mail, the committer or the committer-mail.
BlameInfoGiven(result) ==
    \/ result.blame_author # None
    \/ Get(result, "blame_author_mail") # None
    \/ Get(result, "blame_committer") # None
    \/ Get(result, "blame_committer_mail") # None

\* _get_author_mail_from_blame_info
get_author_mail_from_blame_info(result) ==
    IF ~BlameInfoGiven(result) THEN None
    ELSE IF Get(result, "blame_author_mail") # None /\ Get(result, "blame_author_mail")[1] # <<>>
    THEN Get(result, "blame_author_mail")
    ELSE Get(result, "blame_committer_mail")

\* result_to_record lines 275-292
make_record(run_data, location, result, message, include_blame_info) ==
    IF include_blame_info
    THEN [Tool |-> run_data.tool_name,
          Location |-> location.file_path,
          Line |-> location.line_number,
          Severity |-> read_result_severity(result, run_data),
          Code |-> result.ruleId[1],
          Description |-> description_of(message, result.ruleId[1]),
          Author |-> get_author_mail_from_blame_info(result)]
    ELSE [Tool |-> run_data.tool_name,
          Location |-> location.file_path,
          Line |-> location.line_number,
          Severity |-> read_result_severity(result, run_data),
          Code |-> result.ruleId[1],
          Description |-> description_of(message, result.ruleId[1])]

\* result_to_record lines 234-252: file path and line number of the record.
record_location(run, location) ==
    [file_path |-> strip_path_prefixes(file_path_or_placeholder(location.file_path),
                                       run.path_prefixes_upper),
     line_number |-> line_number_or_1(location.line_number)]

\* result_to_record lines 256-292, for the message read or the error raised.
record_with_message(run, result, message, include_blame_info) ==
    IF message = None THEN None
    ELSE Some(make_record(run.run_data, record_location(run, read_result_location(result)),
                          result, message[1], include_blame_info))

\* SarifRun.result_to_record: the record, or None where IOError is raised.
result_to_record(run, result, include_blame_info) ==
    record_with_message(run, result, message_of(result, result.ruleId[1]),
                        include_blame_info)

\* SarifRun.has_blame_info
has_blame_info(rs) == \E i \in 1..Len(rs) : BlameInfoGiven(rs[i])

\* The GeneralFilter of a run as filter_results reads it.
filter_of(run) ==
    [include_filters |-> run.include_filters,
     apply_inclusion_filter |-> run.apply_inclusion_filter,
     exclude_filters |-> run.exclude_filters,
     apply_exclusion_filter |-> run.apply_exclusion_filter]

\* SarifRun.get_results: the statistics and results of the run after the call
\* and the returned results, or TypeError raised.
get_results(run) == filter_results(filter_of(run), run.filter_stats, run.results)

\* get_records lines 211-214, for the outcome of get_results: the optional records.
records_of_results(run, out) ==
    [k \in 1..Len(out.ret) |->
        result_to_record(run, out.results[out.ret[k]], has_blame_info(out.results))]

\* get_records lines 210-215: the run with the statistics and annotations
\* of the filter, and with the records cached unless one raised IOError.
cache_records(run, out, records) ==
    IF \E k \in 1..Len(records) : records[k] = None
    THEN [run |-> [run EXCEPT !.filter_stats = out.stats, !.results = out.results],
          raised |-> TRUE, error |-> "IOError", ret |-> <<>>]
    ELSE [run |-> [run EXCEPT !.filter_stats = out.stats, !.results = out.results,
                              !.cached_records =
                                  Some([k \in 1..Len(records) |-> records[k][1]])],
          raised |-> FALSE, error |-> "None",
          ret |-> [k \in 1..Len(records) |-> records[k][1]]]

\* get_records lines 210-215, for the outcome of get_results: its TypeError
\* leaves get_records with what the filter has done to the run so far.
compute_records(run, out) ==
    IF out.raised
    THEN [run |-> [run EXCEPT !.filter_stats = out.stats, !.results = out.results],
          raised |-> TRUE, error |-> "TypeError", ret |-> <<>>]
    ELSE cache_records(run, out, records_of_results(run, out))

\* SarifRun.get_records: the run after the call, the returned records,
\* whether the call raised and the error raised.
get_records(run) ==
    IF run.cached_records = None \/ run.cached_records[1] = <<>>
    THEN compute_records(run, get_results(run))
    ELSE [run |-> run, raised |-> FALSE, error |-> "None", ret |-> run.cached_records[1]]

\* _add_filter_stats: both arguments are optional; the first stats are copied.
add_filter_stats(accumulator, stats) ==
    IF stats # None
    THEN IF accumulator # None THEN Some(add(accumulator[1], stats)) ELSE stats
    ELSE accumulator

\* The loops of get_filter_stats (SarifFile lines 484-487, SarifFileSet lines
\* 672-677) over the optional stats of the runs, or of the files.
RECURSIVE add_all_filter_stats(_, _, _)
add_all_filter_stats(ret, stats_list, k) ==
    IF k > Len(stats_list) THEN ret
    ELSE add_all_filter_stats(add_filter_stats(ret, stats_list[k]), stats_list, k + 1)

\* SarifFile.get_filter_stats, for the optional stats of the runs of the file.
file_get_filter_stats(runs) == add_all_filter_stats(None, runs, 1)

\* SarifFileSet.get_filter_stats, for a set of files without subdirectories;
\* a file is the list of the optional stats of its runs.
file_set_get_filter_stats(files) ==
    add_all_filter_stats(None, [k \in 1..Len(files) |-> file_get_filter_stats(files[k])], 1)

\* A SarifFile is its name and its runs (SarifFile.__init__), a SarifFileSet
\* its subdirs, file sets themselves, and its files.

\* SarifFile.has_blame_info
file_has_blame_info(file) ==
    \E r \in 1..Len(file.runs) : has_blame_info(file.runs[r].results)

\* SarifFileSet.get_filter_stats
RECURSIVE set_get_filter_stats(_)
set_get_filter_stats(fs) ==
    add_all_filter_stats(
        add_all_filter_stats(None,
            [d \in 1..Len(fs.subdirs) |-> set_get_filter_stats(fs.subdirs[d])], 1),
        [f \in 1..Len(fs.files) |->
            file_get_filter_stats([r \in 1..Len(fs.files[f].runs) |->
                                      fs.files[f].runs[r].filter_stats])],
        1)

\* SarifFileSet.has_blame_info
set_has_blame_info(fs) ==
    \E f \in 1..Len(fs.files) : file_has_blame_info(fs.files[f])

\* sum(1 for f in self.files if f): SarifFile.__bool__ is bool(self.runs).
CountTruthy(files) == Cardinality({f \in 1..Len(files) : files[f].runs # <<>>})

\* sum() of a list of numbers
RECURSIVE SumOf(_)
SumOf(numbers) == IF numbers = <<>> THEN 0 ELSE Head(numbers) + SumOf(Tail(numbers))

\* SarifFileSet.__len__
RECURSIVE set_len(_)
set_len(fs) ==
    SumOf([d \in 1..Len(fs.subdirs) |-> set_len(fs.subdirs[d])]) + CountTruthy(fs.files)

\* The files of the file set and of its subdirectories at any depth, in the
\* order in which get_records, get_results and get_filter_stats visit them.
RECURSIVE AllFiles(_)
AllFiles(fs) ==
    Flatten([d \in 1..Len(fs.subdirs) |-> AllFiles(fs.subdirs[d])]) \o fs.files

\* Which objects the files of AllFiles are, as iter_next tells it: the places
\* of the subdirectories a file is reached through, then its place in the
\* files of the last.
RECURSIVE AllPaths(_)
AllPaths(fs) ==
    Flatten([d \in 1..Len(fs.subdirs) |->
                [k \in 1..Len(AllPaths(fs.subdirs[d])) |->
                    <<d>> \o AllPaths(fs.subdirs[d])[k]]])
        \o [f \in 1..Len(fs.files) |-> <<f>>]

\* SarifFileSet.__iter__ is a generator. next(it) runs its body from where it
\* is suspended to the next yield, on the file set as it is now: pc "created"
\* is the generator before its first next, "for" the head of the loop over
\* self.subdirs after it.subdir of them, "subdir" the yield from subdir.files
\* and "files" the yield from self.files after it.index files, "done" the
\* generator that has returned. The outcome is the generator after the call
\* and the file, or StopIteration raised; path tells which object the file
\* is: its place in subdir.files after the place of subdir in self.subdirs,
\* or its place in self.files.
RECURSIVE iter_next(_, _)
iter_next(fs, it) ==
    IF it.pc = "created"
    THEN iter_next(fs, [it EXCEPT !.pc = "for", !.subdir = 0, !.index = 0])
    ELSE IF it.pc = "for"
    THEN IF it.subdir < Len(fs.subdirs)
         THEN iter_next(fs, [it EXCEPT !.pc = "subdir", !.subdir = @ + 1, !.index = 0])
         ELSE iter_next(fs, [it EXCEPT !.pc = "files", !.subdir = 0, !.index = 0])
    ELSE IF it.pc = "subdir"
    THEN IF it.index < Len(fs.subdirs[it.subdir].files)
         THEN [it |-> [it EXCEPT !.index = @ + 1], raised |-> FALSE,
               ret |-> <<fs.subdirs[it.subdir].files[it.index + 1]>>,
               path |-> <<it.subdir, it.index + 1>>]
         ELSE iter_next(fs, [it EXCEPT !.pc = "for"])
    ELSE IF it.pc = "files" /\ it.index < Len(fs.files)
    THEN [it |-> [it EXCEPT !.index = @ + 1], raised |-> FALSE,
          ret |-> <<fs.files[it.index + 1]>>, path |-> <<it.index + 1>>]
    ELSE [it |-> [it EXCEPT !.pc = "done", !.subdir = 0, !.index = 0], raised |-> TRUE,
          ret |-> <<>>, path |-> <<>>]

\* The files a generator yields from where it is suspended when nothing is
\* added to the file set meanwhile.
RECURSIVE iter_rest(_, _)
iter_rest(fs, it) ==
    IF iter_next(fs, it).raised THEN <<>>
    ELSE iter_next(fs, it).ret \o iter_rest(fs, iter_next(fs, it).it)

\* list(file_set): SarifFileSet.__iter__ run to its end.
set_iter(fs) ==
    iter_rest(fs, [pc |-> "created", subdir |-> 0, index |-> 0])

\* SarifFileSet.__getitem__ for an index from 0: the file, or IndexError.
set_getitem(fs, index) ==
    LET in_subdirs == Flatten([d \in 1..Len(fs.subdirs) |-> fs.subdirs[d].files])
    IN  IF index < Len(in_subdirs)
        THEN [raised |-> FALSE, ret |-> <<in_subdirs[index + 1]>>]
        ELSE IF index - Len(in_subdirs) < Len(fs.files)
        THEN [raised |-> FALSE, ret |-> <<fs.files[index - Len(in_subdirs) + 1]>>]
        ELSE [raised |-> TRUE, ret |-> <<>>]

\* s.rfind(c) for one character: 0-based index of the last occurrence or -1.
RFind(s, c) ==
    IF \E i \in 1..Len(s) : s[i] = c
    THEN (CHOOSE i \in 1..Len(s) : s[i] = c /\ \A j \in (i + 1)..Len(s) : s[j] # c) - 1
    ELSE -1

\* max(loc.rfind(slash) for slash in _SLASHES)
last_slash_pos(loc) ==
    IF RFind(loc, "/") > RFind(loc, "\\") THEN RFind(loc, "/") ELSE RFind(loc, "\\")

\* init_path_prefix_stripping lines 131-133: the directory of the only location.
autotrim_prefix_of_one(loc) ==
    IF last_slash_pos(loc) > -1 THEN Some(Slice(loc, 0, last_slash_pos(loc))) ELSE None

\* init_path_prefix_stripping lines 137-142: the common prefix is cut at the
\* first position where the location differs from it.
shorten_common_prefix(common_prefix, loc) ==
    LET differ == {i \in 1..Len(common_prefix) : i <= Len(loc) /\ loc[i] # common_prefix[i]}
    IN  IF differ = {} THEN common_prefix
        ELSE Slice(common_prefix, 0, (CHOOSE i \in differ : \A j \in differ : i <= j) - 1)

\* init_path_prefix_stripping lines 136-144
RECURSIVE common_prefix_loop(_, _, _)
common_prefix_loop(records, k, common_prefix) ==
    IF k > Len(records) \/ common_prefix = <<>> THEN common_prefix
    ELSE common_prefix_loop(records, k + 1,
             shorten_common_prefix(common_prefix, Strip(records[k].Location)))

\* init_path_prefix_stripping lines 145-146
upper_if_any(common_prefix) ==
    IF common_prefix # <<>> THEN Some(Upper(common_prefix)) ELSE None

\* init_path_prefix_stripping lines 128-146
autotrim_prefix_of(records) ==
    IF Len(records) = 1 THEN autotrim_prefix_of_one(Strip(records[1].Location))
    ELSE IF Len(records) > 1
    THEN upper_if_any(common_prefix_loop(records, 2, Strip(records[1].Location)))
    ELSE None

\* init_path_prefix_stripping lines 147-150
append_autotrim_prefix(prefixes, autotrim_prefix) ==
    IF /\ autotrim_prefix # None /\ autotrim_prefix[1] # <<>>
       /\ ~\E k \in 1..Len(prefixes) :
              StartsWith(prefixes[k], Upper(Strip(autotrim_prefix[1])))
    THEN Append(prefixes, autotrim_prefix[1])
    ELSE prefixes

\* init_path_prefix_stripping lines 124-126
given_prefixes(path_prefixes) ==
    [k \in 1..Len(path_prefixes) |-> Upper(Strip(path_prefixes[k]))]

\* init_path_prefix_stripping lines 151-153: "prefixes or None", cache cleared.
install_prefixes(run, prefixes) ==
    [run EXCEPT !.path_prefixes_upper = IF prefixes = <<>> THEN None ELSE Some(prefixes),
                !.cached_records = None]

\* init_path_prefix_stripping lines 127-153 with autotrim, for the outcome
\* of its get_records call: an error of get_records leaves the call.
autotrim_and_install(got, prefixes) ==
    IF got.raised THEN [run |-> got.run, raised |-> TRUE, error |-> got.error]
    ELSE [run |-> install_prefixes(got.run,
                      append_autotrim_prefix(prefixes, autotrim_prefix_of(got.ret))),
          raised |-> FALSE, error |-> "None"]

\* SarifRun.init_path_prefix_stripping: the run after the call, whether the
\* call raised and the error raised.  path_prefixes is a list, empty for None.
init_path_prefix_stripping(run, autotrim, path_prefixes) ==
    IF autotrim THEN autotrim_and_install(get_records(run), given_prefixes(path_prefixes))
    ELSE [run |-> install_prefixes(run, given_prefixes(path_prefixes)), raised |-> FALSE,
          error |-> "None"]

\* SarifRun.init_default_line_number_1
init_default_line_number_1(run) ==
    [run EXCEPT !.default_line_number = Some(StrLine(S_1)), !.cached_records = None]

\* SarifRun.__init__ lines 106-114: the date of the "processed" property.
filter_date_of(processed) == IF processed = None THEN "None" ELSE "processed"

\* SarifRun.__init__ lines 96-114: the statistics of the filter of a new run.
\* They are restored if the conversion of the run was made by this tool and
\* recorded some.
filter_stats_of_new_run(run_conversion) ==
    IF run_conversion = None THEN None
    ELSE IF run_conversion[1].driver_name # Some(S_sarif_tools) THEN None
    ELSE IF run_conversion[1].filtered = None THEN None
    ELSE rehydrate_filter_stats(run_conversion[1].filtered[1],
                                filter_date_of(run_conversion[1].processed))

-----------------------------------------------------------------------------
(* operations/diff_op.py *)

\* dict.get(issue_key, 0) on a histogram
HistogramGet(histogram, issue_key) ==
    IF \E k \in 1..Len(histogram) : histogram[k].key = issue_key
    THEN histogram[CHOOSE k \in 1..Len(histogram) : histogram[k].key = issue_key].count
    ELSE 0

HistogramKeys(histogram) == {histogram[k].key : k \in 1..Len(histogram)}

\* _calc_diff for one severity (lines 149-174) without the "+@" location
\* lists, which bear on neither the counts nor the return value.
calc_diff_severity(old_histogram, new_histogram) ==
    LET Changed(e) == HistogramGet(old_histogram, e.key) # e.count
        Gone(e) == e.key \notin HistogramKeys(new_histogram)
        changed == SelectSeq(new_histogram, Changed)
        gone == SelectSeq(old_histogram, Gone)
        same == /\ HistogramKeys(old_histogram) = HistogramKeys(new_histogram)
                /\ \A key \in HistogramKeys(old_histogram) :
                       HistogramGet(old_histogram, key) = HistogramGet(new_histogram, key)
    IN  IF same THEN [plus |-> 0, minus |-> 0, codes |-> <<>>]
        ELSE [plus |-> Cardinality({k \in 1..Len(changed) :
                           HistogramGet(old_histogram, changed[k].key) = 0}),
              minus |-> Len(gone),
              codes |-> [k \in 1..Len(changed) |->
                            [issue_key |-> changed[k].key,
                             old |-> HistogramGet(old_histogram, changed[k].key),
                             new |-> changed[k].count]]
                        \o [k \in 1..Len(gone) |->
                            [issue_key |-> gone[k].key, old |-> gone[k].count, new |-> 0]]]

RECURSIVE SumPlus(_)
SumPlus(entries) ==
    IF entries = <<>> THEN 0 ELSE Head(entries).plus + SumPlus(Tail(entries))

RECURSIVE SumMinus(_)
SumMinus(entries) ==
    IF entries = <<>> THEN 0 ELSE Head(entries).minus + SumMinus(Tail(entries))

\* One round of the loop of _calc_diff (lines 149-174), given the histograms
\* of the two reports for the severity; acc carries the two reports, which
\* group and sort their records at the first histogram asked of them.
calc_diff_step(acc, severity, old_histogram, new_histogram) ==
    [old_report |-> old_histogram.report,
     new_report |-> new_histogram.report,
     severities |-> Append(acc.severities,
                        [severity |-> severity] @@
                        calc_diff_severity(old_histogram.value, new_histogram.value))]

\* The loop of _calc_diff over the severities, from severity k on.
RECURSIVE calc_diff_loop(_, _, _)
calc_diff_loop(severities, k, acc) ==
    IF k > Len(severities) THEN acc
    ELSE calc_diff_loop(severities, k + 1,
             calc_diff_step(acc, severities[k],
                 get_issue_type_histogram_for_severity(acc.old_report, severities[k]),
                 get_issue_type_histogram_for_severity(acc.new_report, severities[k])))

\* The dict _calc_diff returns, given the entries of the severities.
calc_diff_return(by_severity) ==
    [all |-> [plus |-> SumPlus(by_severity), minus |-> SumMinus(by_severity)],
     severities |-> by_severity]

\* _calc_diff on the reports of the old and the new file set.
calc_diff(old_report, new_report) ==
    calc_diff_return(
        calc_diff_loop(
            IF any_none_severities(old_report)
            THEN get_severities(old_report) ELSE get_severities(new_report),
            1,
            [old_report |-> old_report, new_report |-> new_report,
             severities |-> <<>>]).severities)

\* print_diff lines 90-100: the return value for a diff and an optional check level.
RECURSIVE check_level_sum(_, _, _)
check_level_sum(diff, k, check_level) ==
    IF k > Len(SARIF_SEVERITIES_WITH_NONE) THEN 0
    ELSE LET severity == SARIF_SEVERITIES_WITH_NONE[k]
             Here(e) == e.severity = severity
         IN  SumPlus(SelectSeq(diff.severities, Here))
             + (IF severity = check_level THEN 0
                ELSE check_level_sum(diff, k + 1, check_level))

\* print_diff lines 90-100, given the diff.
print_diff_return(diff, check_level) ==
    [diff |-> diff,
     ret |-> IF check_level # None THEN check_level_sum(diff, 1, check_level[1]) ELSE 0]

\* print_diff: the diff and the return value.
print_diff(old_records, new_records, check_level) ==
    print_diff_return(calc_diff(get_report(old_records), get_report(new_records)),
                      check_level)

-----------------------------------------------------------------------------
(* cmdline/main.py *)

\* The loop of _check (lines 229-232) from severity k on; the report is
\* built anew from the records of the file set for every severity.
RECURSIVE check_loop(_, _, _)
check_loop(records, k, check_level) ==
    IF k > Len(SARIF_SEVERITIES_WITH_NONE) THEN 0
    ELSE get_issue_count_for_severity(get_report(records), SARIF_SEVERITIES_WITH_NONE[k])
         + (IF SARIF_SEVERITIES_WITH_NONE[k] = check_level THEN 0
            ELSE check_loop(records, k + 1, check_level))

\* load_filter_file, given the name of the file and what yaml.safe_load makes
\* of it: the error raised and the tuple returned.
load_filter_file(file_name, yaml_content) ==
    IF yaml_content.kind = "YAMLError" THEN [raised |-> "IOError", ret |-> None]
    ELSE IF yaml_content.kind # "dict" THEN [raised |-> "AttributeError", ret |-> None]
    ELSE [raised |-> "None",
          ret |-> Some([filter_description |->
                            IF yaml_content.description # None
                            THEN yaml_content.description[1] ELSE file_name,
                        configuration |-> yaml_content.configuration,
                        include_filters |-> yaml_content.include,
                        exclude_filters |-> yaml_content.exclude])]

\* GeneralFilter.init_filter lines 152-153: the statistics and the
\* configuration are set before the filters are compiled; the filters
\* compiled by an earlier call are still installed, and their terms that hold
\* the configuration dict see the update.
init_filter_begin(run, filters) ==
    [run EXCEPT !.filter_stats = Some(FilterStats(filters.filter_description)),
                !.configuration = ConfigUpdate(run.configuration, filters.configuration),
                !.include_filters =
                    update_shared(run.include_filters,
                                  ConfigUpdate(run.configuration, filters.configuration)),
                !.exclude_filters =
                    update_shared(run.exclude_filters,
                                  ConfigUpdate(run.configuration, filters.configuration))]

\* init_filter lines 156-157 and SarifRun.init_general_filter line 178; a
\* string where the list of filter specs should be has no items().
init_filter_exclude(run, filters) ==
    IF filters.exclude_filters.kind # "list"
    THEN [run |-> run, raised |-> "AttributeError"]
    ELSE [run |-> [run EXCEPT
                      !.exclude_filters =
                          compile_filters(filters.exclude_filters.rules, run.configuration),
                      !.apply_exclusion_filter = (Len(filters.exclude_filters.rules) > 0),
                      !.cached_records = None],
          raised |-> "None"]

\* init_filter lines 154-155
init_filter_include(run, filters) ==
    IF filters.include_filters.kind # "list"
    THEN [run |-> run, raised |-> "AttributeError"]
    ELSE init_filter_exclude(
             [run EXCEPT
                 !.include_filters =
                     compile_filters(filters.include_filters.rules, run.configuration),
                 !.apply_inclusion_filter = (Len(filters.include_filters.rules) > 0)],
             filters)

\* init_filter with its four arguments in one record.
init_filter(run, filters) == init_filter_include(init_filter_begin(run, filters), filters)

\* SarifRun.init_general_filter: GeneralFilter.init_filter, then the cache is
\* cleared (line 178); include and exclude are lists of filter specs, or
\* strings. When init_filter raises, what it had installed stays and the cache
\* is kept. The outcome is the run after the call and the error raised.
init_general_filter(run, filter_description, cfg, include, exclude) ==
    init_filter(run, [filter_description |-> filter_description,
                      configuration |-> cfg,
                      include_filters |-> include,
                      exclude_filters |-> exclude])

\* _init_filtering lines 243-244, for the outcome of load_filter_file.
init_filtering_loaded(run, loaded) ==
    IF loaded.raised # "None" THEN [run |-> run, raised |-> loaded.raised]
    ELSE init_general_filter(run, loaded.ret[1].filter_description,
                             loaded.ret[1].configuration,
                             loaded.ret[1].include_filters, loaded.ret[1].exclude_filters)

\* _init_filtering(input_files, args) on one run: the run after the call and
\* the error raised.
init_filtering(run, file_name, yaml_content) ==
    init_filtering_loaded(run, load_filter_file(file_name, yaml_content))

\* _check with the count of the check level alone.
check_at_level_only(records, check_level) ==
    IF check_level # None
    THEN get_issue_count_for_severity(get_report(records), check_level[1])
    ELSE 0

\* _check(input_files, check_level), given the records of the file set.
check(records, check_level) ==
    IF check_level # None THEN check_loop(records, 1, check_level[1]) ELSE 0

-----------------------------------------------------------------------------
(* sarif_file.py: the methods of SarifFile and SarifFileSet that call every run *)

\* SarifRun.__init__ for a run with the given results and conversion.
SarifRun(run_data, run_results, run_conversion) ==
    [run_data |-> run_data,
     results |-> run_results,
     filter_stats |-> filter_stats_of_new_run(run_conversion),
     include_filters |-> <<>>,
     apply_inclusion_filter |-> FALSE,
     exclude_filters |-> <<>>,
     apply_exclusion_filter |-> FALSE,
     configuration |-> DEFAULT_CONFIGURATION,
     path_prefixes_upper |-> None,
     cached_records |-> None,
     default_line_number |-> None]

\* run.get_results() as its caller sees it: the run as the filter leaves it
\* and the results returned, or TypeError raised.
run_get_results(run, out) ==
    [run |-> [run EXCEPT !.filter_stats = out.stats, !.results = out.results],
     raised |-> out.raised,
     error |-> IF out.raised THEN "TypeError" ELSE "None",
     ret |-> [k \in 1..Len(out.ret) |-> out.results[out.ret[k]]]]

\* run.init_general_filter(...) as its caller sees it.
run_init_general_filter(out) ==
    [run |-> out.run, raised |-> (out.raised # "None"), error |-> out.raised, ret |-> <<>>]

\* run.init_path_prefix_stripping(...) as its caller sees it.
run_init_path_prefix_stripping(out) ==
    [run |-> out.run, raised |-> out.raised, error |-> out.error, ret |-> <<>>]

\* One of the methods that SarifFile calls on each of its runs, with the
\* arguments that are handed down: the run after the call, the error raised
\* and the list returned.
call_run(run, method) ==
    CASE method.op = "init_path_prefix_stripping" ->
            run_init_path_prefix_stripping(
                init_path_prefix_stripping(run, method.autotrim, method.path_prefixes))
      [] method.op = "init_default_line_number_1" ->
            [run |-> init_default_line_number_1(run), raised |-> FALSE, error |-> "None",
             ret |-> <<>>]
      [] method.op = "init_general_filter" ->
            run_init_general_filter(
                init_general_filter(run, method.filter_description, method.configuration,
                                    method.include_filters, method.exclude_filters))
      [] method.op = "get_results" -> run_get_results(run, get_results(run))
      [] method.op = "get_records" -> get_records(run)

\* One round of "for run in self.runs" in a method of SarifFile, given what
\* the call on the run did: "ret += run.get_results()" (line 451),
\* "ret += run.get_records()" (line 461), or the call alone; a call that
\* raised returns nothing.
file_loop_step(acc, r, out) ==
    [file |-> [acc.file EXCEPT !.runs[r] = out.run],
     raised |-> out.raised, error |-> out.error,
     ret |-> IF out.raised THEN <<>> ELSE acc.ret \o out.ret]

\* "for run in self.runs" of SarifFile.init_path_prefix_stripping,
\* init_default_line_number_1, init_general_filter, get_results and
\* get_records from run r on; an error raised by a run leaves the loop.
RECURSIVE file_loop(_, _, _)
file_loop(method, r, acc) ==
    IF acc.raised \/ r > Len(acc.file.runs) THEN acc
    ELSE file_loop(method, r + 1,
                   file_loop_step(acc, r, call_run(acc.file.runs[r], method)))

\* The method of SarifFile of that name: the file after the call, the error
\* raised and the list returned.
call_file(file, method) ==
    file_loop(method, 1, [file |-> file, raised |-> FALSE, error |-> "None", ret |-> <<>>])

\* SarifFile.get_results
file_get_results(file) == call_file(file, [op |-> "get_results"])

\* SarifFile.get_records
file_get_records(file) == call_file(file, [op |-> "get_records"])

\* SarifFile.init_general_filter
file_init_general_filter(file, filter_description, cfg, include, exclude) ==
    call_file(file, [op |-> "init_general_filter", filter_description |-> filter_description,
                     configuration |-> cfg, include_filters |-> include,
                     exclude_filters |-> exclude])

\* One round of "for subdir in self.subdirs" in a method of SarifFileSet, given
\* what the call on the subdirectory did.
set_loop_subdir(acc, d, out) ==
    [fs |-> [acc.fs EXCEPT !.subdirs[d] = out.fs],
     raised |-> out.raised, error |-> out.error,
     ret |-> IF out.raised THEN <<>> ELSE acc.ret \o out.ret]

\* One round of "for input_file in self.files", given what the call on the
\* file did.
set_loop_file(acc, f, out) ==
    [fs |-> [acc.fs EXCEPT !.files[f] = out.file],
     raised |-> out.raised, error |-> out.error,
     ret |-> IF out.raised THEN <<>> ELSE acc.ret \o out.ret]

\* The two loops of SarifFileSet.init_path_prefix_stripping,
\* init_default_line_number_1, init_general_filter, get_results and
\* get_records: the subdirectories, each with the same method, then the files.
\* pos counts the subdirectories and then the files; an error raised leaves
\* the loops.
RECURSIVE set_loop(_, _, _)
set_loop(method, pos, acc) ==
    IF acc.raised \/ pos > Len(acc.fs.subdirs) + Len(acc.fs.files) THEN acc
    ELSE IF pos <= Len(acc.fs.subdirs)
    THEN set_loop(method, pos + 1,
             set_loop_subdir(acc, pos,
                 set_loop(method, 1,
                          [fs |-> acc.fs.subdirs[pos], raised |-> FALSE, error |-> "None",
                           ret |-> <<>>])))
    ELSE set_loop(method, pos + 1,
             set_loop_file(acc, pos - Len(acc.fs.subdirs),
                 call_file(acc.fs.files[pos - Len(acc.fs.subdirs)], method)))

\* The method of SarifFileSet of that name: the file set after the call, the
\* error raised and the list returned.
call_set(fs, method) ==
    set_loop(method, 1, [fs |-> fs, raised |-> FALSE, error |-> "None", ret |-> <<>>])

\* SarifFileSet.init_path_prefix_stripping
set_init_path_prefix_stripping(fs, autotrim, path_prefixes) ==
    call_set(fs, [op |-> "init_path_prefix_stripping", autotrim |-> autotrim,
                  path_prefixes |-> path_prefixes])

\* SarifFileSet.init_default_line_number_1
set_init_default_line_number_1(fs) == call_set(fs, [op |-> "init_default_line_number_1"])

\* SarifFileSet.init_general_filter
set_init_general_filter(fs, filter_description, cfg, include, exclude) ==
    call_set(fs, [op |-> "init_general_filter", filter_description |-> filter_description,
                  configuration |-> cfg, include_filters |-> include,
                  exclude_filters |-> exclude])

\* SarifFileSet.get_results
set_get_results(fs) == call_set(fs, [op |-> "get_results"])

\* SarifFileSet.get_records
set_get_records(fs) == call_set(fs, [op |-> "get_records"])

-----------------------------------------------------------------------------
(* Inputs of the filter: results and filter definitions *)

Location(startLine) ==
    [startLine |-> startLine, address_fqn |-> None, uri |-> None, logicalLocations |-> <<>>]

Result(ruleId, level, locations) ==
    [ruleId |-> ruleId, level |-> level, blame_author |-> None,
     locations |-> locations, filtered |-> None]

\* The results a run may hold: with and without the filtered properties, with a
\* reliable line number (5), without one, and with line 1 as int and as str.
ResultUniverse ==
    { Result(None, Some(S_error), <<Location(Some(IntLine(5)))>>),
      Result(None, Some(S_warning), <<Location(Some(IntLine(5)))>>),
      Result(Some(S_test_rule), None, <<>>),
      Result(None, Some(S_warning), <<>>),
      Result(Some(S_test_rule), None, <<Location(Some(IntLine(5)))>>),
      Result(None, Some(S_warning), <<Location(Some(StrLine(S_1)))>>),
      Result(None, Some(S_warning), <<Location(Some(IntLine(1)))>>) }

Term(prop_path, prop_value_spec) ==
    [prop_path |-> prop_path, prop_value_spec |-> prop_value_spec]

T_level_error == Term(S_level, StrSpec(S_error))
T_level_err_nodefault == Term(S_level, DictSpec(Some(S_err), Some(FALSE), None))
T_level_error_noline == Term(S_level, DictSpec(Some(S_error), None, Some(FALSE)))
T_ruleId == Term(S_ruleId, StrSpec(S_test_rule))
T_rule_regex == Term(S_rule, StrSpec(S_regex_TEST))
T_author_exists == Term(S_author, DictSpec(None, None, None))
T_startLine_1 == Term(S_locations_startLine, StrSpec(S_1))

\* The include or exclude argument of init_filter, as given or as the value
\* of the include or exclude key of a filter file: a list of filter specs, or a
\* string.
FilterList(rules) == [kind |-> "list", rules |-> rules]
FilterString == [kind |-> "str", rules |-> <<>>]

Rules(description, include, exclude) ==
    [description |-> description, include |-> include, exclude |-> exclude]

\* The description, include and exclude arguments of init_filter: a filter
\* description and two lists of filter specs.
FilterInputs ==
    { Rules(S_f1, <<>>, <<>>),
      Rules(S_f1, <<>>, << <<T_level_error>> >>),
      Rules(S_f1, << <<T_ruleId>> >>, <<>>),
      Rules(S_f2, << <<T_ruleId>> >>, <<>>),
      Rules(S_f2, << <<T_level_error>> >>, <<>>),
      Rules(S_f1, << <<T_level_err_nodefault>> >>, <<>>),
      Rules(S_f2, << <<T_ruleId>>, <<T_level_error>> >>, << <<>> >>),
      Rules(S_f1, << <<T_rule_regex, T_level_error_noline>> >>, << <<T_author_exists>> >>),
      Rules(S_f2, << <<T_level_err_nodefault>>, <<T_rule_regex>> >>, <<>>),
      Rules(S_f1, << <<>> >>, <<>>),
      Rules(S_f2, <<>>, << <<T_level_error_noline>> >>),
      Rules(S_f1, << <<T_author_exists, T_level_err_nodefault>>, <<T_ruleId>> >>, <<>>),
      Rules(S_f1, << <<T_startLine_1>> >>, <<>>),
      Rules(S_f2, <<>>, << <<T_startLine_1>> >>) }

\* The configuration argument of init_filter: each key given or not.
ConfigurationInputs ==
    { [default_include |-> None, check_line_number |-> None],
      [default_include |-> Some(FALSE), check_line_number |-> None],
      [default_include |-> None, check_line_number |-> Some(FALSE)] }

RECURSIVE SeqsUpTo(_, _)
SeqsUpTo(S, n) ==
    IF n = 0 THEN {<<>>}
    ELSE LET shorter == SeqsUpTo(S, n - 1)
         IN  shorter \cup {Append(q, x) : q \in shorter, x \in S}

-----------------------------------------------------------------------------
(* Inputs of the report: normalized records *)

S_X == <<"X">>
S_Y == <<"Y">>
S_abc == <<"a", "b", "c">>
S_ab == <<"a", "b">>
S_abd == <<"a", "b", "d">>
S_a == <<"a">>
S_f == <<"f">>

Record(severity, code, description, location, line) ==
    [Severity |-> severity, Code |-> code, Description |-> description,
     Location |-> location, Line |-> Some(IntLine(line))]

\* Records of two codes and two severities whose descriptions share prefixes:
\* one description is a proper prefix of another, two differ in their last
\* letter, and one description is found at two locations.
RecordUniverse ==
    { Record(S_error, S_X, S_abc, S_f, 2),
      Record(S_error, S_X, S_ab, S_a, 2),
      Record(S_error, S_X, S_abd, S_f, 10),
      Record(S_error, S_X, S_abd, S_a, 2),
      Record(S_error, S_Y, S_abc, S_f, 2),
      Record(S_warning, S_X, S_abc, S_f, 2) }

\* The severities the report is asked about.
QuerySeverities == {S_error, S_warning}

\* The check level print_diff is called with.
CheckLevels == {Some(S_warning)}

-----------------------------------------------------------------------------
(* The filter as a state machine *)

\* The GeneralFilter object as filter_results reads it.
TheFilter ==
    [include_filters |-> include_filters,
     apply_inclusion_filter |-> apply_inclusion_filter,
     exclude_filters |-> exclude_filters,
     apply_exclusion_filter |-> apply_exclusion_filter]

NoQuery ==
    [op |-> "none", severity |-> <<>>, count |-> 0, histogram |-> <<>>,
     groups |-> <<>>, issues |-> <<>>]

NoRegroup ==
    [op |-> "none", old |-> <<>>, new |-> <<>>, plus |-> 0, minus |-> 0, ret |-> 0]

\* IssuesReport.__init__
ReportInit ==
    /\ sev_to_records = NewReport.sev_to_records
    /\ sev_to_sorted_keys = NewReport.sev_to_sorted_keys
    /\ records_have_been_sorted = NewReport.records_have_been_sorted
    /\ query = NoQuery
    /\ regroup = NoRegroup

\* No function of sarif_file_utils.py has been called.
NoCall == [args |-> <<>>, ret |-> None]

\* SarifFileSet.__init__
NewFileSet == [subdirs |-> <<>>, files |-> <<>>]

\* No query has been made on the file set.
NoSetCall == [op |-> "none", args |-> <<>>, raised |-> FALSE, error |-> "None", ret |-> <<>>]

\* iter(file_set) has not been called.
NoIteration ==
    [pc |-> "none", subdir |-> 0, index |-> 0, made_on |-> <<>>, yielded |-> <<>>]

\* _init_filtering has not been called.
NoLoad == [args |-> <<>>, raised |-> "None"]

CallsIdle ==
    /\ combine_call = NoCall
    /\ severity_call = NoCall
    /\ stats_call = NoCall
    /\ check_call = NoCall
    /\ load_call = NoLoad
    /\ file_set = NewFileSet
    /\ set_call = NoSetCall
    /\ set_iteration = NoIteration

\* No method of the run has been called (SarifRun.__init__ lines 93-96).
NoRunCall ==
    [op |-> "__init__", args |-> <<>>, raised |-> FALSE, error |-> "None", records |-> <<>>,
     returned |-> <<>>, stats |-> None, severities |-> {}]

RunIdle ==
    /\ path_prefixes_upper = None
    /\ cached_records = None
    /\ default_line_number = None
    /\ conversion = None
    /\ run_call = NoRunCall

\* GeneralFilter.__init__ for a run holding some results.
FilterInit ==
    /\ filter_stats = None
    /\ include_filters = <<>>
    /\ apply_inclusion_filter = FALSE
    /\ exclude_filters = <<>>
    /\ apply_exclusion_filter = FALSE
    /\ configuration = DEFAULT_CONFIGURATION
    /\ results \in SeqsUpTo(ResultUniverse, MaxResults)
    /\ filtered_results = <<>>
    /\ last_call = "__init__"

\* GeneralFilter.init_filter
InitFilter ==
    \E cfg \in ConfigurationInputs, rules \in FilterInputs :
        /\ filter_stats' = Some(FilterStats(rules.description))
        /\ configuration' = ConfigUpdate(configuration, cfg)
        /\ include_filters' = compile_filters(rules.include, configuration')
        /\ apply_inclusion_filter' = (Len(rules.include) > 0)
        /\ exclude_filters' = compile_filters(rules.exclude, configuration')
        /\ apply_exclusion_filter' = (Len(rules.exclude) > 0)
        /\ filtered_results' = <<>>
        /\ last_call' = "init_filter"
        /\ UNCHANGED <<results>>
        /\ UNCHANGED <<report_vars, call_vars, run_vars>>

\* GeneralFilter.filter_results applied to the results of the run; a call
\* that raises TypeError returns nothing.
FilterResults ==
    \E out \in {filter_results(TheFilter, filter_stats, results)} :
        /\ filter_stats' = out.stats
        /\ results' = out.results
        /\ filtered_results' = out.ret
        /\ last_call' = IF out.raised THEN "filter_results raised TypeError"
                                      ELSE "filter_results"
        /\ UNCHANGED <<include_filters, apply_inclusion_filter, exclude_filters,
                       apply_exclusion_filter, configuration>>
        /\ UNCHANGED <<report_vars, call_vars, run_vars>>

InitF == FilterInit /\ ReportInit /\ CallsIdle /\ RunIdle

NextF == InitFilter \/ FilterResults

\* The filter of one run: any sequence of init_filter and filter_results calls.
SpecFilter == InitF /\ [][NextF]_vars

-----------------------------------------------------------------------------
(* The report as a state machine *)

\* The IssuesReport object of the state.
TheReport == Report(sev_to_records, sev_to_sorted_keys, records_have_been_sorted)

SetReport(report) ==
    /\ sev_to_records' = report.sev_to_records
    /\ sev_to_sorted_keys' = report.sev_to_sorted_keys
    /\ records_have_been_sorted' = report.records_have_been_sorted

\* All the records of the report, severity by severity.
AllRecords ==
    Flatten([k \in 1..Len(SARIF_SEVERITIES_WITH_NONE) |->
                sev_to_records[SARIF_SEVERITIES_WITH_NONE[k]]])

\* The permutations of a sequence.
Reorderings(seq) ==
    { [i \in 1..Len(seq) |-> seq[f[i]]] :
        f \in {g \in [1..Len(seq) -> 1..Len(seq)] :
                  \A i, j \in 1..Len(seq) : i # j => g[i] # g[j]} }

\* A GeneralFilter that is never used.
FilterIdle ==
    /\ filter_stats = None
    /\ include_filters = <<>>
    /\ apply_inclusion_filter = FALSE
    /\ exclude_filters = <<>>
    /\ apply_exclusion_filter = FALSE
    /\ configuration = DEFAULT_CONFIGURATION
    /\ results = <<>>
    /\ filtered_results = <<>>
    /\ last_call = "__init__"

\* IssuesReport.add_record
AddRecord ==
    \E record \in RecordUniverse :
        /\ Len(AllRecords) < MaxRecords
        /\ SetReport(add_record(TheReport, record))
        /\ query' = NoQuery
        /\ regroup' = NoRegroup
        /\ UNCHANGED <<filter_vars, call_vars, run_vars>>

\* IssuesReport.get_issue_type_count_for_severity
GetIssueTypeCount ==
    \E severity \in QuerySeverities :
        \E got \in {get_issue_type_count_for_severity(TheReport, severity)} :
            /\ SetReport(got.report)
            /\ query' = [NoQuery EXCEPT !.op = "get_issue_type_count_for_severity",
                                        !.severity = severity,
                                        !.count = got.value]
            /\ regroup' = NoRegroup
            /\ UNCHANGED <<filter_vars, call_vars, run_vars>>

\* IssuesReport.get_issue_type_histogram_for_severity
GetIssueTypeHistogram ==
    \E severity \in QuerySeverities :
        \E got \in {get_issue_type_histogram_for_severity(TheReport, severity)} :
            /\ SetReport(got.report)
            /\ query' = [NoQuery EXCEPT !.op = "get_issue_type_histogram_for_severity",
                                        !.severity = severity,
                                        !.histogram = got.value]
            /\ regroup' = NoRegroup
            /\ UNCHANGED <<filter_vars, call_vars, run_vars>>

\* IssuesReport.get_issues_grouped_by_type_for_severity
GetIssuesGroupedByType ==
    \E severity \in QuerySeverities :
        \E got \in {get_issues_grouped_by_type_for_severity(TheReport, severity)} :
            /\ SetReport(got.report)
            /\ query' = [NoQuery EXCEPT !.op = "get_issues_grouped_by_type_for_severity",
                                        !.severity = severity,
                                        !.groups = got.value]
            /\ regroup' = NoRegroup
            /\ UNCHANGED <<filter_vars, call_vars, run_vars>>

\* IssuesReport.get_issues_for_severity
GetIssuesForSeverity ==
    \E severity \in QuerySeverities :
        \E got \in {get_issues_for_severity(TheReport, severity)} :
            /\ SetReport(got.report)
            /\ query' = [NoQuery EXCEPT !.op = "get_issues_for_severity",
                                        !.severity = severity,
                                        !.issues = got.value]
            /\ regroup' = NoRegroup
            /\ UNCHANGED <<filter_vars, call_vars, run_vars>>

\* The grouping of every severity of a report, as
\* get_issues_grouped_by_type_for_severity returns it.
GroupedBySeverity(report) ==
    [severity \in DOMAIN report.sev_to_records |->
        get_issues_grouped_by_type_for_severity(report, severity).value]

\* The flat lists get_issues_for_severity returns for the severities, in one list.
FlatLists(report) ==
    Flatten([k \in 1..Len(SARIF_SEVERITIES_WITH_NONE) |->
                get_issues_for_severity(report, SARIF_SEVERITIES_WITH_NONE[k]).value])

\* The flat lists of get_issues_for_severity of a grouped and sorted report are
\* added to a new IssuesReport, which is then grouped in its turn.
Regroup ==
    /\ records_have_been_sorted
    /\ regroup' = [NoRegroup EXCEPT
                      !.op = "regroup",
                      !.old = GroupedBySeverity(TheReport),
                      !.new = GroupedBySeverity(get_report(FlatLists(TheReport)))]
    /\ query' = NoQuery
    /\ UNCHANGED <<sev_to_records, sev_to_sorted_keys, records_have_been_sorted>>
    /\ UNCHANGED <<filter_vars, call_vars, run_vars>>

\* print_diff of two file sets that hold the records of the report, the new one
\* in another order.  print_diff builds its own reports from the records
\* (get_report), so the step is taken where this report has not been queried.
DiffReordered ==
    /\ AllRecords # <<>>
    /\ sev_to_sorted_keys = None
    /\ query = NoQuery
    /\ \E reordered \in Reorderings(AllRecords), check_level \in CheckLevels :
        \E out \in {print_diff(AllRecords, reordered, check_level)} :
            regroup' = [NoRegroup EXCEPT !.op = "print_diff",
                                         !.old = AllRecords,
                                         !.new = reordered,
                                         !.plus = out.diff.all.plus,
                                         !.minus = out.diff.all.minus,
                                         !.ret = out.ret]
    /\ query' = NoQuery
    /\ UNCHANGED <<sev_to_records, sev_to_sorted_keys, records_have_been_sorted>>
    /\ UNCHANGED <<filter_vars, call_vars, run_vars>>

InitR == FilterIdle /\ ReportInit /\ CallsIdle /\ RunIdle

NextR ==
    \/ AddRecord
    \/ GetIssueTypeCount
    \/ GetIssueTypeHistogram
    \/ GetIssuesGroupedByType
    \/ GetIssuesForSeverity
    \/ Regroup
    \/ DiffReordered

\* One IssuesReport: any interleaving of add_record with the queries.
SpecReport == InitR /\ [][NextR]_vars

-----------------------------------------------------------------------------
(* combine_code_and_description applied to codes and descriptions *)

\* n copies of a string, one after the other.
Repeat(str, n) == [i \in 1..(n * Len(str)) |-> str[((i - 1) % Len(str)) + 1]]

S_A == <<"A">>
S_blah == <<"b", "l", "a", "h", " ">>

\* Codes: none, short, padded with blanks, and long ones around the lengths
\* at which the description is dropped (106) and the budget is exceeded (121).
CombineCodes ==
    { <<>>, S_X, <<" ">> \o S_X \o <<" ">>,
      Repeat(S_A, 98), Repeat(S_A, 105), Repeat(S_A, 106), Repeat(S_A, 121) }

\* Descriptions: none, short, starting with a code once or twice, of two
\* lines, and longer than the budget with and without blanks.
CombineDescriptions ==
    { <<>>, S_abc, S_X \o <<" ">> \o S_abc, S_X \o <<" ">> \o S_X \o <<" ">> \o S_abc,
      S_ab \o <<"\n">> \o S_abd, Repeat(S_blah, 25), Repeat(S_a, 125),
      Repeat(S_A, 121) \o <<" ">> \o S_abc }

CombineInit ==
    combine_call \in {[args |-> <<code, description>>, ret |-> None] :
                         code \in CombineCodes, description \in CombineDescriptions}

\* combine_code_and_description(code, description)
Combine ==
    /\ combine_call.ret = None
    /\ \E out \in {combine_code_and_description(combine_call.args[1],
                                                combine_call.args[2])} :
           combine_call' = [combine_call EXCEPT !.ret = Some(out)]
    /\ UNCHANGED <<filter_vars, report_vars, severity_call, stats_call, check_call, load_call, file_set, set_call, set_iteration, run_vars>>

InitC ==
    /\ FilterIdle /\ ReportInit /\ RunIdle
    /\ CombineInit /\ severity_call = NoCall /\ stats_call = NoCall /\ check_call = NoCall
    /\ load_call = NoLoad
    /\ file_set = NewFileSet
    /\ set_call = NoSetCall
    /\ set_iteration = NoIteration

NextC == Combine

\* One call of combine_code_and_description on any code and description.
SpecCombine == InitC /\ [][NextC]_vars

-----------------------------------------------------------------------------
(* read_result_severity applied to results and runs *)

S_id0 == <<"i", "d", "0">>
S_id1 == <<"i", "d", "1">>
S_id2 == <<"i", "d", "2">>
S_id9 == <<"i", "d", "9">>
S_other == <<"o", "t", "h", "e", "r">>

\* A reportingDescriptor of the rule table.
RuleDescriptor(id, level) == [id |-> Some(id), defaultConfiguration_level |-> level]

\* A configurationOverride of an invocation.
Override(id, index, level) ==
    [descriptor_id |-> id, descriptor_index |-> index, level |-> level]

\* The run of test_read_result_severity, with a third rule that has no default
\* level and an override without a level: the overrides name rule id1 by id
\* (invocation 0) and by index (invocation 1); invocation 2 is an empty dict
\* and invocation 3 overrides rule id2.
TestRun ==
    [rules |-> << RuleDescriptor(S_id0, Some(S_none)),
                  RuleDescriptor(S_id1, Some(S_error)),
                  RuleDescriptor(S_id2, None) >>,
     invocations |->
        << [ruleConfigurationOverrides |-> Some(<< Override(Some(S_id1), None, Some(S_note)) >>)],
           [ruleConfigurationOverrides |->
               Some(<< Override(None, Some(0), None),
                       Override(None, Some(1), Some(S_note)) >>)],
           [ruleConfigurationOverrides |-> None],
           [ruleConfigurationOverrides |-> Some(<< Override(Some(S_id2), None, Some(S_error)) >>)] >>]

\* A run without rule table and invocations: {}.
EmptyRun == [rules |-> <<>>, invocations |-> <<>>]

SeverityRuns == {TestRun, EmptyRun}

\* Results without level, with every way of naming a rule (in and out of
\* range, known and unknown) and an invocation (in and out of range).
SeverityResults ==
    { [level |-> level, kind |-> kind, ruleIndex |-> ruleIndex, ruleId |-> ruleId,
       rule |-> rule, provenance |-> provenance] :
        level \in {None, Some(S_error)},
        kind \in {None, Some(S_fail), Some(S_other)},
        ruleIndex \in {None, Some(-1), Some(0), Some(1), Some(2), Some(5)},
        ruleId \in {None, Some(S_id1), Some(S_id9)},
        rule \in {None, Some([index |-> Some(1), id |-> None]),
                        Some([index |-> None, id |-> Some(S_id2)])},
        provenance \in {None} \cup
            {Some([invocationIndex |-> i]) : i \in {None, Some(0), Some(1), Some(2), Some(3), Some(7)}} }

SeverityInit ==
    severity_call \in {[args |-> <<result, run>>, ret |-> None] :
                          result \in SeverityResults, run \in SeverityRuns}

\* read_result_severity(result, run)
ReadResultSeverity ==
    /\ severity_call.ret = None
    /\ \E out \in {read_result_severity(severity_call.args[1], severity_call.args[2])} :
           severity_call' = [severity_call EXCEPT !.ret = Some(out)]
    /\ UNCHANGED <<filter_vars, report_vars, combine_call, stats_call, check_call, load_call, file_set, set_call, set_iteration, run_vars>>

InitS ==
    /\ FilterIdle /\ ReportInit /\ RunIdle
    /\ SeverityInit /\ combine_call = NoCall /\ stats_call = NoCall /\ check_call = NoCall
    /\ load_call = NoLoad
    /\ file_set = NewFileSet
    /\ set_call = NoSetCall
    /\ set_iteration = NoIteration

NextS == ReadResultSeverity

\* One call of read_result_severity on any result and run.
SpecSeverity == InitS /\ [][NextS]_vars

-----------------------------------------------------------------------------
(* FilterStats: the JSON form and merging *)

S_f1_f2 == S_f1 \o <<",", " ">> \o S_f2

\* A FilterStats object with the given description and counters.
Stats(description, n_in, n_out, n_missing, n_unconvincing) ==
    [FilterStats(description) EXCEPT
        !.filtered_in_result_count = n_in,
        !.filtered_out_result_count = n_out,
        !.missing_property_count = n_missing,
        !.unconvincing_line_number_count = n_unconvincing]

\* The FilterStats objects that are serialized: new, used (stamped by
\* reset_counters) or rehydrated, of one filter or merged from two.
JsonStatsInputs ==
    { [Stats(description, n_in, n_out, n_missing, n_unconvincing) EXCEPT
          !.rehydrated = origin.rehydrated, !.filter_datetime = origin.filter_datetime] :
        description \in {S_f1, S_f1_f2},
        n_in \in 0..MaxCount, n_out \in 0..MaxCount,
        n_missing \in 0..MaxCount, n_unconvincing \in 0..MaxCount,
        origin \in { [rehydrated |-> FALSE, filter_datetime |-> "None"],
                     [rehydrated |-> FALSE, filter_datetime |-> "now"],
                     [rehydrated |-> TRUE, filter_datetime |-> "None"] } }

JsonInit ==
    stats_call \in {[args |-> <<stats>>, ret |-> None] : stats \in JsonStatsInputs}

\* load_filter_stats_from_json(stats.to_json_camel_case())
ToJsonAndLoad ==
    /\ stats_call.ret = None
    /\ \E out \in {load_filter_stats_from_json(Some(to_json_camel_case(stats_call.args[1])))} :
           stats_call' = [stats_call EXCEPT !.ret = Some(out)]
    /\ UNCHANGED <<filter_vars, report_vars, combine_call, severity_call, check_call,
                   load_call, file_set, set_call, set_iteration, run_vars>>

InitJ ==
    /\ FilterIdle /\ ReportInit /\ RunIdle
    /\ JsonInit /\ combine_call = NoCall /\ severity_call = NoCall /\ check_call = NoCall
    /\ load_call = NoLoad
    /\ file_set = NewFileSet
    /\ set_call = NoSetCall
    /\ set_iteration = NoIteration

NextJ == ToJsonAndLoad

\* FilterStats written to the compact JSON form and loaded from it.
SpecStatsJson == InitJ /\ [][NextJ]_vars

\* The filter statistics of a run: none (no filter), or those of filter f1
\* or f2 with different counters.
RunStatsInputs ==
    { None, Some(Stats(S_f1, 1, 2, 0, 1)), Some(Stats(S_f2, 2, 0, 1, 3)) }

\* The files of a file set, each the list of the statistics of its runs.
FileSetInputs == SeqsUpTo(SeqsUpTo(RunStatsInputs, MaxRuns), MaxFiles)

MergeInit ==
    stats_call \in {[args |-> <<files>>, ret |-> None] : files \in FileSetInputs}

\* SarifFileSet.get_filter_stats
FileSetGetFilterStats ==
    /\ stats_call.ret = None
    /\ \E out \in {file_set_get_filter_stats(stats_call.args[1])} :
           stats_call' = [stats_call EXCEPT !.ret = Some(out)]
    /\ UNCHANGED <<filter_vars, report_vars, combine_call, severity_call, check_call,
                   load_call, file_set, set_call, set_iteration, run_vars>>

InitM ==
    /\ FilterIdle /\ ReportInit /\ RunIdle
    /\ MergeInit /\ combine_call = NoCall /\ severity_call = NoCall /\ check_call = NoCall
    /\ load_call = NoLoad
    /\ file_set = NewFileSet
    /\ set_call = NoSetCall
    /\ set_iteration = NoIteration

NextM == FileSetGetFilterStats

\* The filter statistics of the runs of the files of a file set, merged.
SpecStatsMerge == InitM /\ [][NextM]_vars

-----------------------------------------------------------------------------
(* print_diff of two file sets with a check level *)

\* Records of the file sets: one issue type at two locations, another issue
\* type of the same code, and the same issue at two lower severities.
DiffRecordUniverse ==
    { Record(S_error, S_X, S_abc, S_f, 2),
      Record(S_error, S_X, S_abd, S_f, 10),
      Record(S_error, S_X, S_abd, S_a, 2),
      Record(S_warning, S_X, S_abc, S_f, 2),
      Record(S_none, S_X, S_abc, S_f, 2) }

\* The --check argument: absent or one of SARIF_SEVERITIES_WITH_NONE.
DiffCheckLevels ==
    {None} \cup {Some(SARIF_SEVERITIES_WITH_NONE[k]) : k \in 1..Len(SARIF_SEVERITIES_WITH_NONE)}

DiffInit ==
    check_call \in
        {[args |-> <<old_records, new_records, check_level>>, ret |-> None] :
            old_records \in SeqsUpTo(DiffRecordUniverse, MaxDiffRecords),
            new_records \in SeqsUpTo(DiffRecordUniverse, MaxDiffRecords),
            check_level \in DiffCheckLevels}

\* print_diff(old_sarif, new_sarif, output, check_level)
PrintDiff ==
    /\ check_call.ret = None
    /\ \E out \in {print_diff(check_call.args[1], check_call.args[2], check_call.args[3])} :
           check_call' = [check_call EXCEPT !.ret = Some(out.ret)]
    /\ UNCHANGED <<filter_vars, report_vars, combine_call, severity_call, stats_call,
                   load_call, file_set, set_call, set_iteration, run_vars>>

InitD ==
    /\ FilterIdle /\ ReportInit /\ RunIdle
    /\ DiffInit /\ combine_call = NoCall /\ severity_call = NoCall /\ stats_call = NoCall
    /\ load_call = NoLoad
    /\ file_set = NewFileSet
    /\ set_call = NoSetCall
    /\ set_iteration = NoIteration

NextD == PrintDiff

\* print_diff on two file sets given by their records.
SpecDiff == InitD /\ [][NextD]_vars

-----------------------------------------------------------------------------
(* _check of a file set with a check level *)

\* Records of the file set: one of each severity, and one with a level that
\* is none of the SARIF levels.
CheckRecordUniverse ==
    { Record(S_error, S_X, S_abc, S_f, 2),
      Record(S_warning, S_X, S_abc, S_f, 2),
      Record(S_note, S_X, S_abc, S_f, 2),
      Record(S_none, S_X, S_abc, S_f, 2),
      Record(S_err, S_X, S_abc, S_f, 2) }

CheckInit ==
    check_call \in
        {[args |-> <<records, check_level>>, ret |-> None] :
            records \in SeqsUpTo(CheckRecordUniverse, MaxRecords),
            check_level \in DiffCheckLevels}

\* _check(input_files, check_level)
Check ==
    /\ check_call.ret = None
    /\ \E out \in {check(check_call.args[1], check_call.args[2])} :
           check_call' = [check_call EXCEPT !.ret = Some(out)]
    /\ UNCHANGED <<filter_vars, report_vars, combine_call, severity_call, stats_call,
                   load_call, file_set, set_call, set_iteration, run_vars>>

InitK ==
    /\ FilterIdle /\ ReportInit /\ RunIdle
    /\ CheckInit /\ combine_call = NoCall /\ severity_call = NoCall /\ stats_call = NoCall
    /\ load_call = NoLoad
    /\ file_set = NewFileSet
    /\ set_call = NoSetCall
    /\ set_iteration = NoIteration

NextK == Check

\* _check on a file set given by its records.
SpecCheck == InitK /\ [][NextK]_vars

-----------------------------------------------------------------------------
(* One SarifRun: configuration calls interleaved with queries *)

S_T == <<"T">>
S_d == <<"d">>
S_d_f1 == <<"d", "/", "f", "1">>
S_d_f2 == <<"d", "/", "f", "2">>
S_e_f1 == <<"e", "/", "f", "1">>

LocationAt(uri, startLine) ==
    [startLine |-> startLine, address_fqn |-> None, uri |-> Some(uri),
     logicalLocations |-> <<>>]

\* A result with a rule id, as result_to_record requires; message is the
\* optional message object with its optional text and id.
RunResult(ruleId, level, message, locations) ==
    [ruleId |-> Some(ruleId), level |-> level, blame_author |-> None,
     locations |-> locations, filtered |-> None, message |-> message]

MessageText(text) == Some([text |-> Some(text), id |-> None])
MessageId(id) == Some([text |-> None, id |-> Some(id)])

\* Rule X reported as an error at d/f1:5 with the message "X abc".
R_abc ==
    RunResult(S_X, Some(S_error), MessageText(S_X \o <<" ">> \o S_abc),
              <<LocationAt(S_d_f1, Some(IntLine(5)))>>)

\* R_abc with blame info that has the author-mail alone.
R_mail == ("blame_author_mail" :> Some(S_a)) @@ R_abc

\* Rule X without level, message and location.
R_bare == RunResult(S_X, None, None, <<>>)

\* Rule id1 of the rule table, without level, with a message id and a
\* location without line number.
R_id1 == RunResult(S_id1, None, MessageId(S_abc), <<LocationAt(S_d_f2, None)>>)

\* Rule X with a level outside the SARIF levels, at e/f1:5.
R_err ==
    RunResult(S_X, Some(S_err), MessageText(S_abc), <<LocationAt(S_e_f1, Some(IntLine(5)))>>)

\* Rule X with a message that has neither text nor id.
R_bad == RunResult(S_X, Some(S_note), Some([text |-> None, id |-> None]), <<>>)

\* run_data of the run, without its results: tool name, rule table, invocations.
RunData == [tool_name |-> S_T, rules |-> TestRun.rules, invocations |-> TestRun.invocations]

\* The result lists a run may hold.
RunResultLists ==
    { <<>>, <<R_abc>>, <<R_abc, R_bare>>, <<R_id1, R_err>>, <<R_abc, R_id1>>, <<R_bad>>,
      <<R_bare, R_mail>> }

T_author_mail == Term(S_author_mail, StrSpec(S_a))

\* Arguments of init_general_filter.
RunFilterInputs ==
    { Rules(S_f1, FilterList(<<>>), FilterList(<< <<T_level_error>> >>)),
      Rules(S_f2, FilterList(<< <<T_level_error>> >>), FilterList(<<>>)),
      Rules(S_f1, FilterList(<< <<T_author_mail>> >>), FilterList(<<>>)),
      Rules(S_f2, FilterList(<< <<T_level_error>> >>), FilterString),
      Rules(S_f2, FilterList(<< <<T_startLine_1>> >>), FilterList(<<>>)) }

RunConfigurationInputs == { [default_include |-> None, check_line_number |-> None] }

\* The path_prefixes argument of init_path_prefix_stripping.
PathPrefixInputs == { <<>>, <<S_d>> }

\* The SarifRun object of the state.
TheRun ==
    [run_data |-> RunData,
     results |-> results,
     filter_stats |-> filter_stats,
     include_filters |-> include_filters,
     apply_inclusion_filter |-> apply_inclusion_filter,
     exclude_filters |-> exclude_filters,
     apply_exclusion_filter |-> apply_exclusion_filter,
     configuration |-> configuration,
     path_prefixes_upper |-> path_prefixes_upper,
     cached_records |-> cached_records,
     default_line_number |-> default_line_number]

SetRun(run) ==
    /\ results' = run.results
    /\ filter_stats' = run.filter_stats
    /\ include_filters' = run.include_filters
    /\ apply_inclusion_filter' = run.apply_inclusion_filter
    /\ exclude_filters' = run.exclude_filters
    /\ apply_exclusion_filter' = run.apply_exclusion_filter
    /\ configuration' = run.configuration
    /\ path_prefixes_upper' = run.path_prefixes_upper
    /\ cached_records' = run.cached_records
    /\ default_line_number' = run.default_line_number

\* What the SarifRun actions leave alone.
RunFrame == UNCHANGED <<filtered_results, last_call, conversion, report_vars, call_vars>>

Conversion(driver_name, filtered, processed) ==
    Some([driver_name |-> driver_name, filtered |-> filtered, processed |-> processed])

\* The "filtered" property bag that a filter f1 with one result filtered in,
\* two filtered out and one kept by default for its line number has written.
DehydratedStats == to_json_camel_case(Stats(S_f1, 1, 2, 0, 1))

\* run_data.get("conversion"): none, another tool's, this tool's without
\* and with recorded filter statistics.
ConversionInputs ==
    { None,
      Conversion(Some(S_T), Some(DehydratedStats), None),
      Conversion(Some(S_sarif_tools), None, Some("processed")),
      Conversion(Some(S_sarif_tools), Some(DehydratedStats), None),
      Conversion(Some(S_sarif_tools), Some(DehydratedStats), Some("processed")) }

\* SarifRun.__init__
RunInit ==
    /\ conversion \in ConversionInputs
    /\ filter_stats = filter_stats_of_new_run(conversion)
    /\ include_filters = <<>>
    /\ apply_inclusion_filter = FALSE
    /\ exclude_filters = <<>>
    /\ apply_exclusion_filter = FALSE
    /\ configuration = DEFAULT_CONFIGURATION
    /\ results \in RunResultLists
    /\ filtered_results = <<>>
    /\ last_call = "__init__"
    /\ path_prefixes_upper = None
    /\ cached_records = None
    /\ default_line_number = None
    /\ run_call = NoRunCall

\* SarifRun.init_path_prefix_stripping
InitPathPrefixStripping ==
    \E autotrim \in BOOLEAN, path_prefixes \in PathPrefixInputs :
        \E out \in {init_path_prefix_stripping(TheRun, autotrim, path_prefixes)} :
            /\ SetRun(out.run)
            /\ run_call' = [NoRunCall EXCEPT !.op = "init_path_prefix_stripping",
                                             !.args = <<autotrim, path_prefixes>>,
                                             !.raised = out.raised,
                                             !.error = out.error]
            /\ RunFrame

\* SarifRun.init_default_line_number_1
InitDefaultLineNumber1 ==
    /\ SetRun(init_default_line_number_1(TheRun))
    /\ run_call' = [NoRunCall EXCEPT !.op = "init_default_line_number_1"]
    /\ RunFrame

\* SarifRun.init_general_filter
InitGeneralFilter ==
    \E cfg \in RunConfigurationInputs, rules \in RunFilterInputs :
        \E out \in {init_general_filter(TheRun, rules.description, cfg,
                                         rules.include, rules.exclude)} :
            /\ SetRun(out.run)
            /\ run_call' = [NoRunCall EXCEPT !.op = "init_general_filter",
                                             !.args = <<rules.description>>,
                                             !.raised = (out.raised # "None"),
                                             !.error = out.raised]
            /\ RunFrame

\* SarifRun.get_results
GetResults ==
    \E out \in {get_results(TheRun)} :
        /\ SetRun([TheRun EXCEPT !.filter_stats = out.stats, !.results = out.results])
        /\ run_call' = [NoRunCall EXCEPT
               !.op = "get_results",
               !.raised = out.raised,
               !.error = IF out.raised THEN "TypeError" ELSE "None",
               !.returned = out.ret]
        /\ RunFrame

\* SarifRun.get_records
GetRecords ==
    \E got \in {get_records(TheRun)} :
        /\ SetRun(got.run)
        /\ run_call' = [NoRunCall EXCEPT !.op = "get_records",
                                         !.raised = got.raised,
                                         !.error = got.error,
                                         !.records = got.ret]
        /\ RunFrame

\* SarifRun.get_report: the severities of the report that hold records.
GetReport ==
    \E got \in {get_records(TheRun)} :
        /\ SetRun(got.run)
        /\ run_call' = [NoRunCall EXCEPT
               !.op = "get_report",
               !.raised = got.raised,
               !.error = got.error,
               !.severities =
                   {sev \in DOMAIN get_report(got.ret).sev_to_records :
                       get_report(got.ret).sev_to_records[sev] # <<>>}]
        /\ RunFrame

\* SarifRun.get_filter_stats
GetFilterStats ==
    /\ run_call' = [NoRunCall EXCEPT !.op = "get_filter_stats", !.stats = filter_stats]
    /\ UNCHANGED <<filter_vars, path_prefixes_upper, cached_records, default_line_number,
                   conversion, report_vars, call_vars>>

InitRun == RunInit /\ ReportInit /\ CallsIdle

NextRun ==
    \/ InitPathPrefixStripping
    \/ InitDefaultLineNumber1
    \/ InitGeneralFilter
    \/ GetResults
    \/ GetRecords
    \/ GetReport
    \/ GetFilterStats

\* One SarifRun: any interleaving of the configuration calls with the queries.
SpecRun == InitRun /\ [][NextRun]_vars

-----------------------------------------------------------------------------
(* Properties of the filter (SpecFilter) *)

\* filter_results has just run with at least one include or exclude rule, and
\* has returned.
FilterJustRan ==
    /\ last_call = "filter_results"
    /\ (apply_inclusion_filter \/ apply_exclusion_filter)

\* The results returned by the last filter_results call.
Retained(i) == \E k \in 1..Len(filtered_results) : filtered_results[k] = i

TheStats == filter_stats[1]

SeqRange(q) == {q[k] : k \in 1..Len(q)}

\* The terms of all the compiled include and exclude filters.
InstalledTerms ==
    UNION { SeqRange(f.and_terms) :
            f \in SeqRange(include_filters) \cup SeqRange(exclude_filters) }

\* The line number of a result is missing or is the string "1".
LineMissingOrOne(result) ==
    LET line_number == read_result_location(result).line_number
    IN  \/ line_number = None
        \/ (line_number[1].kind = "str" /\ line_number[1].str = S_1)

\* C1 (as claimed, refuted by the code): with only the exclusion rule
\* {level: error} installed, the records retained by filter_results are exactly
\* those whose level is not error.
C1_ExcludeErrorKeepsTheRest ==
    ( /\ FilterJustRan
      /\ ~apply_inclusion_filter
      /\ Len(exclude_filters) = 1
      /\ exclude_filters[1].filter_spec = <<T_level_error>> )
    => \A i \in 1..Len(results) :
           Retained(i) <=> results[i].level # Some(S_error)

\* C2 (as claimed, refuted by the code): a record whose line number is missing
\* or "1" is retained and counted as an unconvincing line number, never as
\* filtered out, when every term of the installed rules has check-line-number
\* enabled and is therefore skipped.
C2_SkippedTermsNeverFilterOut ==
    ( /\ FilterJustRan
      /\ InstalledTerms # {}
      /\ apply_inclusion_filter => include_filters # <<>>
      /\ \A t \in InstalledTerms : t.filter_configuration.check_line_number
      /\ \A i \in 1..Len(results) : LineMissingOrOne(results[i]) )
    => /\ \A i \in 1..Len(results) : Retained(i)
       /\ TheStats.unconvincing_line_number_count = Len(results)
       /\ TheStats.filtered_out_result_count = 0

\* The single term of the single inclusion rule, when that is all that is installed.
OnlyInclusionTerm == include_filters[1].and_terms[1]

\* C3 (as claimed, refuted by the code): with one inclusion rule of one term
\* installed, a record lacking the term's property is excluded when the
\* term's default-include is false, and otherwise retained with a warning
\* naming the missing field and counted in missing_property_count, not in
\* filtered_in_result_count.
C3_MissingPropertyFollowsDefaultInclude ==
    ( /\ FilterJustRan
      /\ ~apply_exclusion_filter
      /\ Len(include_filters) = 1
      /\ Len(include_filters[1].and_terms) = 1
      /\ \A i \in 1..Len(results) :
             Find(OnlyInclusionTerm.jsonpath_expr, results[i]) = <<>> )
    => IF OnlyInclusionTerm.filter_configuration.default_include
       THEN /\ \A i \in 1..Len(results) :
                  /\ Retained(i)
                  /\ results[i].filtered # None
                  /\ Warning("missing", OnlyInclusionTerm.prop_path)
                         \in SeqRange(results[i].filtered[1].warnings)
            /\ TheStats.missing_property_count = Len(results)
            /\ TheStats.filtered_in_result_count = 0
       ELSE filtered_results = <<>>

\* filter_results has just been called with at least one include or exclude
\* rule, and has returned or raised TypeError.
FilterJustCalled ==
    /\ last_call \in {"filter_results", "filter_results raised TypeError"}
    /\ (apply_inclusion_filter \/ apply_exclusion_filter)

\* The four counters add up to the number of records, and the three
\* "retained" counters to the number of records returned.
CountersAddUp ==
    /\ TheStats.filtered_in_result_count + TheStats.filtered_out_result_count
         + TheStats.missing_property_count
         + TheStats.unconvincing_line_number_count = Len(results)
    /\ TheStats.filtered_in_result_count + TheStats.missing_property_count
         + TheStats.unconvincing_line_number_count = Len(filtered_results)

\* C4 (as claimed, refuted by the code): after every call of filter_results
\* on n records with at least one include or exclude rule installed, the four
\* counters add up to n and the three "retained" counters add up to the number
\* of records returned, so the counters of one call never carry into the next.
C4_CountersOncePerRecord == FilterJustCalled => CountersAddUp

\* After the calls that return the counters do add up: those of the records
\* that a call which raised TypeError never reached are the ones missing.
CountersAddUpAfterReturn == FilterJustRan => CountersAddUp

\* C5 (as claimed, refuted by the code): after filter_results with an active
\* filter every processed record, retained or excluded, carries a filtered
\* annotation.
C5_EveryProcessedRecordAnnotated ==
    FilterJustRan => \A i \in 1..Len(results) : results[i].filtered # None

\* C5 (amended): after filter_results has returned with an active filter every
\* retained record carries a filtered annotation holding the state, the matched
\* inclusion rule (if inclusion rules apply) and the warnings that led to a
\* state other than "included"; an excluded record carries no annotation.
C5_RetainedRecordsAnnotated ==
    FilterJustRan =>
        \A i \in 1..Len(results) :
            IF Retained(i)
            THEN /\ results[i].filtered # None
                 /\ LET a == results[i].filtered[1]
                    IN  /\ a.state # ""
                        /\ (a.warnings = <<>>) <=> (a.state = "included")
                        /\ SeqRange(a.matchedFilter) \subseteq
                               {f.filter_spec : f \in SeqRange(include_filters)}
                        /\ Len(a.matchedFilter) = (IF apply_inclusion_filter THEN 1 ELSE 0)
            ELSE results[i].filtered = None

\* C5 witness: one call retained an annotated record with warnings and
\* excluded another record.
C5_Witness ==
    /\ FilterJustRan
    /\ \E i, j \in 1..Len(results) :
          /\ Retained(i) /\ ~Retained(j)
          /\ results[i].filtered # None
          /\ results[i].filtered[1].warnings # <<>>
          /\ results[j].filtered = None

\* C6 (as claimed, refuted by the code): the state written into a retained
\* record's annotation is "included" or "default" and nothing else, and the
\* single record {ruleId: test-rule} filtered by the single inclusion rule
\* {ruleId: test-rule} has state "included" with filtered_in_result_count = 1.
C6_StateIncludedOrDefault ==
    FilterJustRan =>
        /\ \A i \in 1..Len(results) :
              results[i].filtered # None =>
                  results[i].filtered[1].state \in {"included", "default"}
        /\ ( /\ results = <<Result(Some(S_test_rule), None, <<>>)>>
             /\ ~apply_exclusion_filter
             /\ Len(include_filters) = 1
             /\ include_filters[1].filter_spec = <<T_ruleId>> )
           => /\ filtered_results = <<1>>
              /\ TheStats.filtered_in_result_count = 1

-----------------------------------------------------------------------------
(* Properties of the report (SpecReport) *)

\* The records the report holds for a severity.
RecordsOf(severity) ==
    IF severity \in DOMAIN sev_to_records THEN sev_to_records[severity] ELSE <<>>

\* The records of all the groups of a grouping, in order.
GroupedRecords(groups) == Flatten([k \in 1..Len(groups) |-> groups[k].records])

RECURSIVE SumCounts(_)
SumCounts(histogram) ==
    IF histogram = <<>> THEN 0 ELSE Head(histogram).count + SumCounts(Tail(histogram))

\* Two lists hold the same records: as many, and the same ones.
SameRecords(a, b) == Len(a) = Len(b) /\ SeqRange(a) = SeqRange(b)

\* C7 (as claimed, refuted by the code): the answer of each of the four
\* queries reflects all the records added so far: the issue type count is the
\* number of codes among the records of the severity, the histogram counts add
\* up to the number of those records, and the grouped and the flat lists hold
\* exactly those records.
C7_QueriesReflectAllRecords ==
    LET records == RecordsOf(query.severity)
    IN  /\ query.op = "get_issue_type_count_for_severity" =>
              query.count = Cardinality({r.Code : r \in SeqRange(records)})
        /\ query.op = "get_issue_type_histogram_for_severity" =>
              SumCounts(query.histogram) = Len(records)
        /\ query.op = "get_issues_grouped_by_type_for_severity" =>
              SameRecords(GroupedRecords(query.groups), records)
        /\ query.op = "get_issues_for_severity" =>
              SameRecords(query.issues, records)

\* The longest common prefix of a non-empty set of strings.
LongestCommonPrefix(strings) ==
    LET first == CHOOSE d \in strings : TRUE
        Shared(n) == \A d \in strings : Len(d) >= n /\ Slice(d, 0, n) = Slice(first, 0, n)
        n == CHOOSE m \in 0..Len(first) :
                 Shared(m) /\ \A l \in (m + 1)..Len(first) : ~Shared(l)
    IN  Slice(first, 0, n)

\* C8 (as claimed, refuted by the code): whenever the report is grouped, the
\* key of every group is built from the longest common prefix of its members'
\* descriptions, with the ellipsis marker when that prefix is shorter than
\* every member's description (the stem had to be shortened whatever the
\* order of the records).
C8_KeyIsLongestCommonPrefix ==
    sev_to_sorted_keys # None =>
        \A severity \in DOMAIN sev_to_sorted_keys[1] :
            \A g \in SeqRange(sev_to_sorted_keys[1][severity]) :
                g.records # <<>> =>
                    LET code == g.records[1].Code
                        descs == {r.Description : r \in SeqRange(g.records)}
                        stem == LongestCommonPrefix(descs)
                        plain == combine_code_and_description(code, stem)
                        marked == combine_code_and_description(
                                      code, stem \o continuation_placeholder)
                    IN  IF stem \in descs THEN g.key \in {plain, marked}
                        ELSE g.key = marked

\* C9 (as claimed, refuted by the code): the diff of two file sets holding the
\* same records in different orders reports no added and no removed issue
\* type, and print_diff returns 0.
C9_DiffOfReorderedIsEmpty ==
    regroup.op = "print_diff" =>
        /\ regroup.plus = 0
        /\ regroup.minus = 0
        /\ regroup.ret = 0

\* The issue type keys of a grouping, each with the set of its members.
KeysAndMembers(groups) ==
    {<<groups[k].key, SeqRange(groups[k].records)>> : k \in 1..Len(groups)}

\* C10 (as claimed, refuted by the code): the flat lists of a grouped and
\* sorted report, added to a new report, give the same issue type keys with
\* the same members under each key at every severity.
C10_RegroupingKeepsKeysAndMembers ==
    regroup.op = "regroup" =>
        /\ DOMAIN regroup.old = DOMAIN regroup.new
        /\ \A severity \in DOMAIN regroup.old :
               KeysAndMembers(regroup.old[severity]) = KeysAndMembers(regroup.new[severity])

\* Location order of two records: by Location and, for equal Location, by
\* Line compared as a number.
InLocationOrder(a, b) ==
    \/ StrLess(a.Location, b.Location)
    \/ /\ a.Location = b.Location
       /\ a.Line[1].int <= b.Line[1].int

\* C11 (as claimed, refuted by the code): the records listed under one issue
\* type key by get_issues_grouped_by_type_for_severity are in location order,
\* whatever their individual descriptions are.
C11_GroupsInLocationOrder ==
    query.op = "get_issues_grouped_by_type_for_severity" =>
        \A k \in 1..Len(query.groups) :
            \A i, j \in 1..Len(query.groups[k].records) :
                i < j => InLocationOrder(query.groups[k].records[i],
                                         query.groups[k].records[j])

\* The number of places of a string at which a substring starts.
Occurrences(str, sub) ==
    Cardinality({i \in 0..(Len(str) - Len(sub)) : SubSeq(str, i + 1, i + Len(sub)) = sub})

\* C12 (as claimed, refuted by the code): combine_code_and_description
\* returns at most 120 characters for every code and description, and when
\* the description starts with the code the code is found only once in the
\* returned string.
C12_AtMost120AndCodeOnce ==
    combine_call.ret # None =>
        LET code == Strip(combine_call.args[1])
            description == combine_call.args[2]
            combined == combine_call.ret[1]
        IN  /\ Len(combined) <= LengthBudget
            /\ (code # <<>> /\ StartsWith(description, code)) =>
                   Occurrences(combined, code) = 1

\* The rules of a run's table that a result names: the rule at its index (its
\* own, else that of its nested rule object) when the index is in range, else
\* the first rule with its id (its own, else that of its nested rule object).
NamedRules(result, run) ==
    LET index == IF result.ruleIndex # None THEN result.ruleIndex
                 ELSE IF result.rule # None THEN result.rule[1].index ELSE None
        id == IF result.ruleId # None THEN result.ruleId
              ELSE IF result.rule # None THEN result.rule[1].id ELSE None
        with_id == {i \in 1..Len(run.rules) : id # None /\ run.rules[i].id = id}
    IN  IF index # None /\ index[1] \in 0..(Len(run.rules) - 1) THEN {index[1] + 1}
        ELSE {i \in with_id : \A j \in with_id : i <= j}

\* The levels with which the invocation named by the result overrides the
\* rule at position i of the table.
OverrideLevels(result, run, i) ==
    LET index == IF result.provenance = None THEN None
                 ELSE result.provenance[1].invocationIndex
        overrides == IF index # None /\ index[1] \in 0..(Len(run.invocations) - 1)
                        /\ run.invocations[index[1] + 1].ruleConfigurationOverrides # None
                     THEN run.invocations[index[1] + 1].ruleConfigurationOverrides[1]
                     ELSE <<>>
    IN  {overrides[k].level[1] : k \in
            {k \in 1..Len(overrides) :
                /\ overrides[k].level # None
                /\ \/ overrides[k].descriptor_id = run.rules[i].id
                   \/ overrides[k].descriptor_index = Some(i - 1)}}

\* C14: read_result_severity follows the layered fallback: an explicit level
\* wins; else a kind other than "fail" gives "none"; else, when the result
\* names a rule of the table, the level of the matching override of its
\* invocation is returned, else the rule's default level; in every other case
\* (no rule named, index out of range, unknown id, invocation out of range,
\* no level configured) the answer is "warning".
C14_SeverityLayeredFallback ==
    severity_call.ret # None =>
        LET result == severity_call.args[1]
            run == severity_call.args[2]
            severity == severity_call.ret[1]
        IN  IF result.level # None THEN severity = result.level[1]
            ELSE IF result.kind \notin {None, Some(S_fail)} THEN severity = S_none
            ELSE \/ /\ NamedRules(result, run) = {}
                    /\ severity = S_warning
                 \/ \E i \in NamedRules(result, run) :
                       IF OverrideLevels(result, run, i) # {}
                       THEN severity \in OverrideLevels(result, run, i)
                       ELSE IF run.rules[i].defaultConfiguration_level # None
                       THEN severity = run.rules[i].defaultConfiguration_level[1]
                       ELSE severity = S_warning

\* C14 witness: a result without level whose rule index is out of range and
\* whose id names rule id1 got the level of the override of its invocation,
\* not the default level of the rule.
C14_Witness ==
    /\ severity_call.ret = Some(S_note)
    /\ severity_call.args[1].level = None
    /\ severity_call.args[1].kind = None
    /\ severity_call.args[1].ruleIndex = Some(5)
    /\ severity_call.args[1].ruleId = Some(S_id1)
    /\ severity_call.args[1].provenance = Some([invocationIndex |-> Some(0)])
    /\ severity_call.args[2] = TestRun

-----------------------------------------------------------------------------
(* Properties of the run (SpecRun) *)

\* get_records has just returned the records of all the results of the run:
\* no filter is installed, so record k is made from result k.
RecordsOfAllResults ==
    /\ run_call.op = "get_records"
    /\ ~run_call.raised
    /\ ~apply_inclusion_filter /\ ~apply_exclusion_filter

\* The message of a result: its text, else its id, else (no message) the rule id.
MessageOf(result) ==
    IF result.message = None THEN result.ruleId[1]
    ELSE IF result.message[1].text # None THEN result.message[1].text[1]
    ELSE result.message[1].id[1]

\* C13 (as claimed, refuted by the code): the Description of a record is the
\* whole remainder of the message after the rule id and one separator
\* character, trimmed, when the message starts with the rule id and is longer
\* than the id plus the separator; otherwise it is the message, which is the
\* rule id when the result has no message.
C13_DescriptionIsRemainderOfMessage ==
    RecordsOfAllResults =>
        /\ Len(run_call.records) = Len(results)
        /\ \A k \in 1..Len(results) :
              LET id == results[k].ruleId[1]
                  message == MessageOf(results[k])
              IN  run_call.records[k].Description =
                      IF StartsWith(message, id) /\ Len(message) > Len(id) + 1
                      THEN Strip(Slice(message, Len(id) + 1, Len(message)))
                      ELSE message

\* The four fixed severity levels.
FixedLevels == {SARIF_SEVERITIES_WITH_NONE[k] : k \in 1..Len(SARIF_SEVERITIES_WITH_NONE)}

\* C15 (as claimed, refuted by the code): the Severity of every record
\* returned by get_records, and every severity of the report of the run that
\* holds records, is one of error, warning, note and none.
C15_SeverityIsAFixedLevel ==
    /\ run_call.op = "get_records" =>
           \A k \in 1..Len(run_call.records) : run_call.records[k].Severity \in FixedLevels
    /\ run_call.op = "get_report" => run_call.severities \subseteq FixedLevels

\* A result without a line number: no location, or a first location
\* without startLine.
NoLineNumber(result) ==
    result.locations = <<>> \/ result.locations[1].startLine = None

\* C16 (as claimed, refuted by the code): the record of a result without a
\* line number has the Line "1" if init_default_line_number_1 was called on
\* the run before and the Line None if it never was; the record of a result
\* without location has the placeholder Location "-".
C16_DefaultLineOnlyWhenConfigured ==
    RecordsOfAllResults =>
        /\ Len(run_call.records) = Len(results)
        /\ \A k \in 1..Len(results) :
              /\ NoLineNumber(results[k]) =>
                     run_call.records[k].Line =
                         IF default_line_number = None THEN None ELSE Some(StrLine(S_1))
              /\ results[k].locations = <<>> => run_call.records[k].Location = S_dash

-----------------------------------------------------------------------------
(* Loading a filter file for a run *)

\* What yaml.safe_load makes of a filter file: an error, or the value read.
Yaml(kind, description, config, include, exclude) ==
    [kind |-> kind, description |-> description, configuration |-> config,
     include |-> include, exclude |-> exclude]

NoConfiguration == [default_include |-> None, check_line_number |-> None]

\* A value that is no mapping: nothing (an empty file), a string, a list.
NotAMapping(kind) == Yaml(kind, None, NoConfiguration, FilterList(<<>>), FilterList(<<>>))

\* The filter files: unparsable, empty, a string, a list, mappings with and
\* without description and configuration, and mappings with a string where
\* the include or the exclude list should be.
FilterFileInputs ==
    { NotAMapping("YAMLError"), NotAMapping("None"), NotAMapping("str"), NotAMapping("list"),
      Yaml("dict", None, NoConfiguration, FilterList(<<>>), FilterList(<<>>)),
      Yaml("dict", Some(S_f1), NoConfiguration,
           FilterList(<<>>), FilterList(<< <<T_level_error>> >>)),
      Yaml("dict", Some(S_f2), [default_include |-> Some(FALSE), check_line_number |-> None],
           FilterList(<< <<T_level_error>> >>), FilterList(<<>>)),
      Yaml("dict", Some(S_f2), NoConfiguration, FilterString, FilterList(<<>>)),
      Yaml("dict", Some(S_f1), [default_include |-> Some(FALSE), check_line_number |-> None],
           FilterList(<< <<T_level_error>> >>), FilterString) }

\* _init_filtering(input_files, args) with args.filter naming a filter file,
\* on a file set of one run.
InitFiltering ==
    \E yaml_content \in FilterFileInputs :
        \E out \in {init_filtering(TheRun, S_f, yaml_content)} :
            /\ SetRun(out.run)
            /\ load_call' = [args |-> <<yaml_content>>, raised |-> out.raised]
            /\ UNCHANGED <<filtered_results, last_call, conversion, run_call, report_vars,
                           combine_call, severity_call, stats_call, check_call,
                           file_set, set_call, set_iteration>>

InitL == RunInit /\ ReportInit /\ CallsIdle

NextL ==
    \/ InitFiltering
    \/ GetRecords

\* A run whose filter is loaded from filter files, between queries.
SpecLoad == InitL /\ [][NextL]_vars

-----------------------------------------------------------------------------
(* A file set built with add_file and add_dir, and its queries *)

File(name, runs) == [name |-> name, runs |-> runs]

FileSet(subdirs, files) == [subdirs |-> subdirs, files |-> files]

\* run_data.get("conversion") of a run that this tool wrote after filtering
\* with f1.
RehydratedConversion(n_in, n_out) ==
    Conversion(Some(S_sarif_tools), Some(to_json_camel_case(Stats(S_f1, n_in, n_out, 0, 0))),
               Some("processed"))

\* The files given to add_file, each newly loaded: one whose result has blame
\* info, with filter statistics; one without blame info; one without runs.
FileInputs ==
    { File(S_a, <<SarifRun(RunData, <<R_mail>>, RehydratedConversion(1, 0))>>),
      File(S_f, <<SarifRun(RunData, <<R_bare>>, None)>>),
      File(S_d, <<>>) }

\* The file sets given to add_dir, each newly loaded: a directory as _load_dir
\* builds it, with one file that has blame info, and a file set holding
\* another file set.
DirInputs ==
    { FileSet(<<>>, <<File(S_f1, <<SarifRun(RunData, <<R_bare, R_mail>>,
                                            RehydratedConversion(2, 1))>>)>>),
      FileSet(<<FileSet(<<>>, <<File(S_f2, <<SarifRun(RunData, <<R_bare>>, None),
                                             SarifRun(RunData, <<>>, None)>>)>>)>>,
              <<>>) }

\* Arguments of SarifFileSet.init_general_filter: an inclusion rule on the
\* line number, which R_bare lacks and which is a number in R_mail.
SetFilterInputs ==
    { Rules(S_f2, FilterList(<< <<T_startLine_1>> >>), FilterList(<<>>)) }

\* What the calls on the file set leave alone.
SetFrame ==
    UNCHANGED <<filter_vars, report_vars, run_vars, combine_call, severity_call,
                stats_call, check_call, load_call>>

\* SarifFileSet.add_dir
SetAddDir ==
    /\ Len(file_set.subdirs) < MaxSubdirs
    /\ \E sarif_file_set \in DirInputs :
           file_set' = [file_set EXCEPT !.subdirs = Append(@, sarif_file_set)]
    /\ set_call' = NoSetCall
    /\ UNCHANGED set_iteration
    /\ SetFrame

\* SarifFileSet.add_file
SetAddFile ==
    /\ Len(file_set.files) < MaxSetFiles
    /\ \E sarif_file_object \in FileInputs :
           file_set' = [file_set EXCEPT !.files = Append(@, sarif_file_object)]
    /\ set_call' = NoSetCall
    /\ UNCHANGED set_iteration
    /\ SetFrame

\* SarifFileSet.has_blame_info
SetHasBlameInfo ==
    /\ set_call' = [NoSetCall EXCEPT !.op = "has_blame_info",
                                     !.ret = <<set_has_blame_info(file_set)>>]
    /\ UNCHANGED <<file_set, set_iteration>>
    /\ SetFrame

\* len(file_set)
SetLen ==
    /\ set_call' = [NoSetCall EXCEPT !.op = "__len__", !.ret = <<set_len(file_set)>>]
    /\ UNCHANGED <<file_set, set_iteration>>
    /\ SetFrame

\* it = iter(file_set): the generator is made, its body has not started.
SetIter ==
    /\ set_iteration' = [pc |-> "created", subdir |-> 0, index |-> 0,
                         made_on |-> AllPaths(file_set), yielded |-> <<>>]
    /\ set_call' = [NoSetCall EXCEPT !.op = "__iter__"]
    /\ UNCHANGED file_set
    /\ SetFrame

\* next(it) on the generator made last; files and subdirectories may have
\* been added to the file set since the generator was made or last resumed.
SetNext ==
    /\ set_iteration.pc \notin {"none", "done"}
    /\ \E out \in {iter_next(file_set, set_iteration)} :
           /\ set_iteration' =
                  [out.it EXCEPT !.yielded = IF out.raised THEN @ ELSE Append(@, out.path)]
           /\ set_call' = [op |-> "__next__", args |-> <<>>, raised |-> out.raised,
                           error |-> IF out.raised THEN "StopIteration" ELSE "None",
                           ret |-> out.ret]
    /\ UNCHANGED file_set
    /\ SetFrame

\* file_set[index]
SetGetItem ==
    /\ \E index \in 0..(MaxSubdirs + MaxSetFiles) :
           \E out \in {set_getitem(file_set, index)} :
               set_call' = [op |-> "__getitem__", args |-> <<index>>,
                            raised |-> out.raised,
                            error |-> IF out.raised THEN "IndexError" ELSE "None",
                            ret |-> out.ret]
    /\ UNCHANGED <<file_set, set_iteration>>
    /\ SetFrame

\* What a method of SarifFileSet that calls every run leaves and returns; a
\* call that raises returns nothing.
SetCalled(op, args, out) ==
    /\ file_set' = out.fs
    /\ set_call' = [op |-> op, args |-> args, raised |-> out.raised, error |-> out.error,
                    ret |-> IF out.raised THEN <<>> ELSE out.ret]
    /\ UNCHANGED set_iteration
    /\ SetFrame

\* SarifFileSet.init_path_prefix_stripping
SetInitPathPrefixStripping ==
    \E autotrim \in BOOLEAN :
        \E out \in {set_init_path_prefix_stripping(file_set, autotrim, <<>>)} :
            SetCalled("init_path_prefix_stripping", <<autotrim>>, out)

\* SarifFileSet.init_default_line_number_1
SetInitDefaultLineNumber1 ==
    \E out \in {set_init_default_line_number_1(file_set)} :
        SetCalled("init_default_line_number_1", <<>>, out)

\* SarifFileSet.init_general_filter
SetInitGeneralFilter ==
    \E cfg \in RunConfigurationInputs, rules \in SetFilterInputs :
        \E out \in {set_init_general_filter(file_set, rules.description, cfg,
                                             rules.include, rules.exclude)} :
            SetCalled("init_general_filter", <<rules.description>>, out)

\* SarifFileSet.get_results
SetGetResults ==
    \E out \in {set_get_results(file_set)} : SetCalled("get_results", <<>>, out)

\* SarifFileSet.get_records
SetGetRecords ==
    \E out \in {set_get_records(file_set)} : SetCalled("get_records", <<>>, out)

\* SarifFileSet.get_filter_stats
SetGetFilterStats ==
    /\ set_call' = [NoSetCall EXCEPT !.op = "get_filter_stats",
                                     !.ret = set_get_filter_stats(file_set)]
    /\ UNCHANGED <<file_set, set_iteration>>
    /\ SetFrame

InitFS == FilterIdle /\ ReportInit /\ RunIdle /\ CallsIdle

NextFS ==
    \/ SetAddDir
    \/ SetAddFile
    \/ SetInitPathPrefixStripping
    \/ SetInitDefaultLineNumber1
    \/ SetInitGeneralFilter
    \/ SetHasBlameInfo
    \/ SetLen
    \/ SetIter
    \/ SetNext
    \/ SetGetItem
    \/ SetGetResults
    \/ SetGetRecords
    \/ SetGetFilterStats

\* One SarifFileSet: files and subdirectories are added, it is configured and
\* it is queried.
SpecFileSet == InitFS /\ [][NextFS]_vars

-----------------------------------------------------------------------------
(* Properties of the filter statistics (SpecStatsJson, SpecStatsMerge) *)

\* C17: filter statistics written to the compact JSON form and loaded from
\* it have the same filter description and the same four counters.
C17_StatsRoundTrip ==
    stats_call.ret # None =>
        /\ stats_call.ret[1] # None
        /\ LET before == stats_call.args[1]
               after == stats_call.ret[1][1]
           IN  /\ after.filter_description = before.filter_description
               /\ after.filtered_in_result_count = before.filtered_in_result_count
               /\ after.filtered_out_result_count = before.filtered_out_result_count
               /\ after.missing_property_count = before.missing_property_count
               /\ after.unconvincing_line_number_count =
                      before.unconvincing_line_number_count

\* C17 witness: statistics with four counters that are not all equal, among
\* them different counts of missing properties and unconvincing line
\* numbers, have been written and loaded.
C17_Witness ==
    /\ stats_call.ret # None
    /\ stats_call.args[1].filter_description = S_f1_f2
    /\ stats_call.args[1].filtered_in_result_count = 2
    /\ stats_call.args[1].filtered_out_result_count = 0
    /\ stats_call.args[1].missing_property_count = 1
    /\ stats_call.args[1].unconvincing_line_number_count = 2
    /\ stats_call.ret[1][1].rehydrated

\* The statistics of all the runs of all the files that have some.
RECURSIVE AllRunStats(_)
AllRunStats(files) ==
    IF files = <<>> THEN <<>>
    ELSE SelectSeq(Head(files), LAMBDA st : st # None) \o AllRunStats(Tail(files))

RECURSIVE SumOver(_, _)
SumOver(stats_list, counter) ==
    IF stats_list = <<>> THEN 0
    ELSE Head(stats_list)[1][counter] + SumOver(Tail(stats_list), counter)

\* The distinct descriptions of a list of stats, each once, in the order of
\* their first occurrence, joined by ", ".
RECURSIVE JoinDistinct(_, _, _)
JoinDistinct(stats_list, seen, joined) ==
    IF stats_list = <<>> THEN joined
    ELSE LET description == Head(stats_list)[1].filter_description
         IN  IF description \in seen THEN JoinDistinct(Tail(stats_list), seen, joined)
             ELSE JoinDistinct(Tail(stats_list), seen \cup {description},
                               IF seen = {} THEN description
                               ELSE joined \o <<",", " ">> \o description)

\* C18 (as claimed, refuted by the code): the merged statistics of a file
\* set sum each of the four counters over the runs, and the merged
\* description lists each distinct filter description exactly once, joined
\* by the separator.
C18_MergeSumsAndListsOnce ==
    (stats_call.ret # None /\ AllRunStats(stats_call.args[1]) # <<>>) =>
        LET all == AllRunStats(stats_call.args[1])
            merged == stats_call.ret[1][1]
        IN  /\ stats_call.ret[1] # None
            /\ merged.filtered_in_result_count = SumOver(all, "filtered_in_result_count")
            /\ merged.filtered_out_result_count = SumOver(all, "filtered_out_result_count")
            /\ merged.missing_property_count = SumOver(all, "missing_property_count")
            /\ merged.unconvincing_line_number_count =
                   SumOver(all, "unconvincing_line_number_count")
            /\ merged.filter_description = JoinDistinct(all, {}, <<>>)

-----------------------------------------------------------------------------
(* Properties of a run with restored filter statistics (SpecRun) *)

\* The filter statistics of the run were restored from its conversion.
StatsAreRehydrated == filter_stats # None /\ filter_stats[1].rehydrated

\* One call on a run: a query leaves restored statistics as they are, and
\* init_general_filter leaves new statistics with the description given.
RehydratedStatsStep ==
    /\ (StatsAreRehydrated
            /\ run_call'.op \in {"get_results", "get_records", "get_filter_stats"}) =>
           /\ filter_stats' = filter_stats
           /\ run_call'.op = "get_filter_stats" => run_call'.stats = filter_stats
    /\ run_call'.op = "init_general_filter" =>
           filter_stats' = Some(FilterStats(run_call'.args[1]))

\* C19: filter statistics restored from a run written by this tool are left
\* unchanged by every get_results, get_records and get_filter_stats call
\* made while no filter has been installed, and a call of
\* init_general_filter replaces them by new statistics with all counters
\* zero and the description given to the call.
C19_RehydratedStatsKeptUntilInitFilter == [][RehydratedStatsStep]_vars

\* C19 witness: get_records has returned the records of a run whose
\* statistics are still the ones its conversion recorded, with their
\* counters and date.
C19_Witness ==
    /\ run_call.op = "get_records"
    /\ run_call.records # <<>>
    /\ StatsAreRehydrated
    /\ filter_stats = filter_stats_of_new_run(conversion)
    /\ filter_stats[1].filtered_out_result_count = 2
    /\ filter_stats[1].filter_datetime = "processed"

-----------------------------------------------------------------------------
(* Properties of the cached records of a run (SpecRun) *)

\* The records computed from the results of the run under its installed
\* prefixes and filter, without any cache.
FreshRecords(run) ==
    compute_records([run EXCEPT !.cached_records = None],
                    get_results([run EXCEPT !.cached_records = None]))

\* C20 (as claimed, refuted by the code): after any sequence of configuration
\* calls and get_records calls,
\* get_records returns (or raises) exactly what computing the records anew
\* from the results under the installed prefixes and filter returns (or
\* raises), and the records it keeps cached are those records.
C20_RecordsAreFreshAfterConfiguration ==
    /\ run_call.op = "get_records" =>
           /\ run_call.raised = FreshRecords(TheRun).raised
           /\ run_call.records = FreshRecords(TheRun).ret
    /\ cached_records # None => cached_records[1] = FreshRecords(TheRun).ret

-----------------------------------------------------------------------------
(* Properties of the check return values (SpecDiff, SpecCheck) *)

\* The number of records of a list with the severity.
CountAt(records, severity) ==
    Len(SelectSeq(records, LAMBDA record : record.Severity = severity))

\* The severities at or above a check level, in the order error > warning >
\* note > none.
AtOrAbove(check_level) ==
    {SARIF_SEVERITIES_WITH_NONE[k] :
        k \in 1..(CHOOSE n \in 1..Len(SARIF_SEVERITIES_WITH_NONE) :
                     SARIF_SEVERITIES_WITH_NONE[n] = check_level)}

\* new_records has lost records of old_records and gained none.
OnlyDecreased(old_records, new_records) ==
    /\ \A record \in SeqRange(new_records) :
           Len(SelectSeq(new_records, LAMBDA other : other = record))
               <= Len(SelectSeq(old_records, LAMBDA other : other = record))
    /\ Len(new_records) < Len(old_records)

\* C21 (as claimed, refuted by the code): print_diff with a check level
\* returns a positive number whenever some severity at or above the check
\* level has more issues in the new file set than in the old one, and
\* returns 0 when the new file set has only lost issues of the old one.
C21_DiffCheckDetectsIncrease ==
    (check_call.ret # None /\ check_call.args[3] # None) =>
        /\ (\E severity \in AtOrAbove(check_call.args[3][1]) :
                CountAt(check_call.args[2], severity)
                    > CountAt(check_call.args[1], severity))
               => check_call.ret[1] > 0
        /\ OnlyDecreased(check_call.args[1], check_call.args[2])
               => check_call.ret[1] = 0

\* The number of records with a severity at or above the check level; 0
\* without a check level.
CountAtOrAbove(records, check_level) ==
    IF check_level = None THEN 0
    ELSE Len(SelectSeq(records,
                       LAMBDA record : record.Severity \in AtOrAbove(check_level[1])))

\* C22: _check returns the number of records of the file set whose severity
\* is at or above the check level in the order error > warning > note >
\* none, 0 when there are none or no check level is given; so a lower check
\* level never gives a smaller number.
C22_CheckCountsAtOrAbove ==
    check_call.ret # None =>
        /\ check_call.ret[1] = CountAtOrAbove(check_call.args[1], check_call.args[2])
        /\ \A lower \in DiffCheckLevels :
               (check_call.args[2] = None
                   \/ (lower # None /\ check_call.args[2][1] \in AtOrAbove(lower[1])))
               => check(check_call.args[1], lower) >= check_call.ret[1]

\* C22 witness: _check at the level warning has counted an error and a
\* warning of a file set that also holds a note.
C22_Witness ==
    /\ check_call.ret = Some(2)
    /\ check_call.args[2] = Some(S_warning)
    /\ Len(check_call.args[1]) = 3
    /\ \E k \in 1..3 : check_call.args[1][k].Severity = S_note

-----------------------------------------------------------------------------
(* Properties of autotrim (SpecRun) *)

\* The locations of the records of the run, computed without any cache.
LocationsOf(run) ==
    [k \in 1..Len(FreshRecords(run).ret) |-> FreshRecords(run).ret[k].Location]

\* The longest leading run of whole directory components, each with its
\* separator, that all the locations start with.
CommonDirectories(locations) ==
    IF locations = <<>> THEN <<>>
    ELSE LET whole == {n \in 0..Len(locations[1]) :
                         /\ n = 0 \/ locations[1][n] \in SLASHES
                         /\ \A k \in 1..Len(locations) :
                                StartsWith(locations[k], SubSeq(locations[1], 1, n))}
         IN  SubSeq(locations[1], 1, CHOOSE n \in whole : \A m \in whole : m <= n)

\* C23 (as claimed, refuted by the code): after
\* init_path_prefix_stripping(autotrim=True) the Location of every record is
\* its location without prefixes with exactly the directories common to all
\* the records of the run removed, never a part of a directory or file name;
\* if the records share no leading directory, no prefix is installed and the
\* locations are unchanged.
C23_AutotrimRespectsDirectories ==
    (/\ run_call.op = "init_path_prefix_stripping"
     /\ run_call.args = <<TRUE, <<>>>>
     /\ ~run_call.raised) =>
        LET original == LocationsOf([TheRun EXCEPT !.path_prefixes_upper = None])
        IN  /\ LocationsOf(TheRun) =
                   [k \in 1..Len(original) |->
                       Slice(original[k], Len(CommonDirectories(original)),
                             Len(original[k]))]
            /\ CommonDirectories(original) = <<>> => path_prefixes_upper = None

-----------------------------------------------------------------------------
(* Properties of loading a filter file (SpecLoad) *)

\* load_filter_file returns a tuple that init_general_filter can install.
WellFormed(yaml_content) ==
    /\ yaml_content.kind = "dict"
    /\ yaml_content.include.kind = "list"
    /\ yaml_content.exclude.kind = "list"

\* One _init_filtering call with a malformed file raises an IOError and
\* leaves the filter of the run as it was.
MalformedLoadStep ==
    (load_call' # load_call /\ ~WellFormed(load_call'.args[1])) =>
        /\ load_call'.raised = "IOError"
        /\ UNCHANGED <<filter_stats, include_filters, apply_inclusion_filter,
                       exclude_filters, apply_exclusion_filter, configuration>>

\* C24 (as claimed, refuted by the code): loading a filter file from which
\* load_filter_file does not return a well-formed tuple raises an IOError,
\* and the filters, the configuration and the statistics of the run stay as
\* they were.
C24_MalformedFilterFileInstallsNothing == [][MalformedLoadStep]_vars

-----------------------------------------------------------------------------
(* Properties of default-include, of the matched rule and of earlier filter  *)
(* runs (SpecFilter)                                                         *)

\* The line number of a result is a number other than 1.
ReliableLine(result) ==
    LET line_number == read_result_location(result).line_number
    IN  /\ line_number # None
        /\ line_number[1].kind = "int"
        /\ line_number[1].int > 1

\* The single term of the single exclusion rule, when that is all that is installed.
OnlyExclusionTerm == exclude_filters[1].and_terms[1]

\* C25 (as claimed, refuted by the code): with one exclusion rule of one term
\* installed whose default-include is true, a record with a reliable line
\* number that lacks the property of the term is retained, and is counted as
\* included by default for lacking data to filter.
C25_DefaultIncludeInExclusionRules ==
    ( /\ FilterJustRan
      /\ ~apply_inclusion_filter
      /\ Len(exclude_filters) = 1
      /\ Len(exclude_filters[1].and_terms) = 1
      /\ OnlyExclusionTerm.filter_configuration.default_include )
    => \A i \in 1..Len(results) :
           ( /\ ReliableLine(results[i])
             /\ Find(OnlyExclusionTerm.jsonpath_expr, results[i]) = <<>> )
           => /\ Retained(i)
              /\ TheStats.missing_property_count >= 1

\* Every term of the compiled rule was evaluated against a property the
\* result has: none skipped for the line number, none defaulted.
EveryTermEvaluated(mpf, result) ==
    \A k \in 1..Len(mpf.and_terms) :
        /\ ~( /\ mpf.and_terms[k].filter_configuration.check_line_number
              /\ unconvincing_line_number(read_result_location(result).line_number) )
        /\ Find(mpf.and_terms[k].jsonpath_expr, result) # <<>>

\* The inclusion rule that matched retained result i evaluated every term.
MatchedOnExistingProperties(i) ==
    /\ Retained(i)
    /\ results[i].filtered # None
    /\ results[i].filtered[1].matchedFilter # <<>>
    /\ \E mpf \in SeqRange(include_filters) :
           /\ mpf.filter_spec = results[i].filtered[1].matchedFilter[1]
           /\ EveryTermEvaluated(mpf, results[i])

\* C26 (as claimed, refuted by the code): a record retained by an inclusion
\* rule whose terms were all evaluated against existing properties is
\* annotated with state "included" and no warnings and counted in
\* filtered_in_result_count, whatever happened in the rules tried before.
C26_AnnotationFollowsMatchedRule ==
    (FilterJustRan /\ apply_inclusion_filter)
    => \A i \in 1..Len(results) :
           MatchedOnExistingProperties(i)
           => /\ results[i].filtered[1].state = "included"
              /\ results[i].filtered[1].warnings = <<>>
              /\ TheStats.filtered_in_result_count >= 1

\* C27 (as claimed, refuted by the code): after any sequence of init_filter
\* and filter_results calls, a filtered annotation on a record returned by the
\* latest filter_results names the filter that is installed now, also when
\* that filter has no inclusion and no exclusion rules.
C27_EarlierAnnotationsNeverSurvive ==
    last_call = "filter_results"
    => \A k \in 1..Len(filtered_results) :
           results[filtered_results[k]].filtered # None
           => /\ filter_stats # None
              /\ results[filtered_results[k]].filtered[1].filter
                     = TheStats.filter_description

\* The step is the call init_filter(rules.description, cfg, rules.include,
\* rules.exclude).
IsInitFilterStep(cfg, rules) ==
    /\ last_call' = "init_filter"
    /\ filter_stats' = Some(FilterStats(rules.description))
    /\ configuration' = ConfigUpdate(configuration, cfg)
    /\ include_filters' = compile_filters(rules.include, configuration')
    /\ exclude_filters' = compile_filters(rules.exclude, configuration')
    /\ apply_inclusion_filter' = (Len(rules.include) > 0)
    /\ apply_exclusion_filter' = (Len(rules.exclude) > 0)

\* The filter installed is the one the arguments alone describe: the defaults
\* overridden by cfg, and the rules compiled under that configuration.
InstalledFromArgumentsAlone(cfg, rules) ==
    /\ configuration' = ConfigUpdate(DEFAULT_CONFIGURATION, cfg)
    /\ include_filters' =
           compile_filters(rules.include, ConfigUpdate(DEFAULT_CONFIGURATION, cfg))
    /\ exclude_filters' =
           compile_filters(rules.exclude, ConfigUpdate(DEFAULT_CONFIGURATION, cfg))

ConfigurationFromArgumentsStep ==
    \A cfg \in ConfigurationInputs, rules \in FilterInputs :
        IsInitFilterStep(cfg, rules) => InstalledFromArgumentsAlone(cfg, rules)

\* C28 (as claimed, refuted by the code): every init_filter call installs the
\* default configuration overridden by the configuration it is given alone,
\* and compiles its rules under it, whatever configurations earlier
\* init_filter calls were given.
C28_ConfigurationFromArgumentsAlone == [][ConfigurationFromArgumentsStep]_vars

\* region.startLine of the result is the number 1.
LineIsNumberOne(result) ==
    LET line_number == read_result_location(result).line_number
    IN  /\ line_number # None
        /\ line_number[1].kind = "int"
        /\ line_number[1].int = 1

\* Only inclusion rules are installed, and each of their terms has
\* check-line-number enabled.
OnlyLineCheckedInclusionRules ==
    /\ apply_inclusion_filter
    /\ ~apply_exclusion_filter
    /\ include_filters # <<>>
    /\ \A t \in InstalledTerms : t.filter_configuration.check_line_number

\* C29 (as claimed, refuted by the code): a result whose startLine is the
\* number 1 has an unreliable line number, as one whose line number is
\* missing or the string "1": with inclusion rules whose terms all have
\* check-line-number enabled, the terms are skipped with a warning and the
\* result is retained with state noLineNumber.
C29_NumberOneIsUnreliable ==
    (FilterJustRan /\ OnlyLineCheckedInclusionRules)
    => \A i \in 1..Len(results) :
           LineIsNumberOne(results[i])
           => /\ Retained(i)
              /\ results[i].filtered # None
              /\ results[i].filtered[1].state = "noLineNumber"
              /\ \A w \in SeqRange(results[i].filtered[1].warnings) :
                     w.kind = "not_checked"

\* The same with the line number missing or the string "1".
MissingOrStringOneIsUnreliable ==
    (FilterJustRan /\ OnlyLineCheckedInclusionRules)
    => \A i \in 1..Len(results) :
           LineMissingOrOne(results[i])
           => /\ Retained(i)
              /\ results[i].filtered # None
              /\ results[i].filtered[1].state = "noLineNumber"

-----------------------------------------------------------------------------
(* Properties of the file set (SpecFileSet) *)

\* get_records, get_results and get_filter_stats range over AllFiles; an
\* error raised by a run ends get_records and get_results at that run.
QueriesRangeOverAllFiles ==
    LET all_files == AllFiles(file_set)
    IN  /\ ~set_get_records(file_set).raised =>
               set_get_records(file_set).ret =
                   Flatten([f \in 1..Len(all_files) |-> file_get_records(all_files[f]).ret])
        /\ ~set_get_results(file_set).raised =>
               set_get_results(file_set).ret =
                   Flatten([f \in 1..Len(all_files) |-> file_get_results(all_files[f]).ret])
        /\ set_get_filter_stats(file_set) =
               add_all_filter_stats(None,
                   [f \in 1..Len(all_files) |->
                       file_get_filter_stats([r \in 1..Len(all_files[f].runs) |->
                                                 all_files[f].runs[r].filter_stats])], 1)

\* Some record that get_records returns has the attributes of blame info, as
\* the records of a run with blame info have.
SomeRecordHasBlameInfo ==
    /\ ~set_get_records(file_set).raised
    /\ \E k \in 1..Len(set_get_records(file_set).ret) :
           "Author" \in DOMAIN set_get_records(file_set).ret[k]

\* An iteration has come to its end (StopIteration) and nothing was added to
\* the file set since iter(file_set) made the generator.
IterationOverUnchangedSetEnded ==
    set_iteration.pc = "done" /\ set_iteration.made_on = AllPaths(file_set)

\* C30 (as claimed, refuted by the code): has_blame_info(), iteration,
\* indexing and len() range over the files that get_records(), get_results()
\* and get_filter_stats() range over, those of the subdirectories at any depth
\* included; has_blame_info() is true whenever a record returned by
\* get_records() comes from a run with blame info.
C30_QueriesRangeOverTheSameFiles ==
    /\ set_call.op = "has_blame_info" => (SomeRecordHasBlameInfo => set_call.ret[1])
    /\ IterationOverUnchangedSetEnded => set_iteration.yielded = AllPaths(file_set)
    /\ set_call.op = "__len__" => set_call.ret[1] = Len(AllFiles(file_set))
    /\ set_call.op = "__getitem__" =>
           IF set_call.args[1] < Len(AllFiles(file_set))
           THEN /\ ~set_call.raised
                /\ set_call.ret = <<AllFiles(file_set)[set_call.args[1] + 1]>>
           ELSE set_call.raised

====
